---- MODULE Spec2Model ----
(***************************************************************************)
(* Verification model of the earningshub scraper.                          *)
(*                                                                         *)
(*   - scroll_to_bottom / LazyLoadScrollStep.run   (services/scraper/      *)
(*     helpers.py)                                  specification SpecScroll*)
(*   - bring_into_view_and_click                   (helpers.py)            *)
(*                                                  specification SpecClick *)
(*   - OpenAnalystRatingsStep.run                  (earningshub/steps.py)  *)
(*   - EarningsHubModularScraper.fetch_variants    (earningshub/scraper.py)*)
(*                                                  specification Spec      *)
(*   - _validate_db_settings, connect_server, connect_db, create_database, *)
(*     create_tables_if_not_exists                 (services/db/db.py)     *)
(*   - upsert_earnings_row, load_earnings_rows, load_csv_text_earnings     *)
(*     (services/db/crud.py), _direct_parse_earnings_to_db                 *)
(*     (app/run_pipeline.py)                        specification SpecStore *)
(*   - main (app/cli.py), run_for_ticker (app/run_pipeline.py)             *)
(*                                                  specification SpecCli   *)
(*   - _parse_one_value, parse_est_act, determine_status, parse_date_time  *)
(*     (services/parser/earningshub/eh_helper.py), parse_rows and          *)
(*     _transform_row (history_parser.py), parse_earnings (controller.py), *)
(*     parse_latest (overview_parser.py)                                   *)
(*                                                  specification SpecParse *)
(*   - delete_old_files (config/paths.py)          specification SpecPurge *)
(*   - run_for_ticker, lines 195-212: the forced refresh before the fetch  *)
(*                                                  specification SpecRefresh*)
(*   - two fetch_variants invocations on one cache directory               *)
(*                                                  specification SpecRace  *)
(*                                                                         *)
(* Text (html, ticker, url) is a sequence of one-character strings, so     *)
(* that lower(), upper(), strip(), rstrip("/") and the substring test are  *)
(* computed, not assumed.  Numbers of the store are in thousandths, so     *)
(* that float() and the rounding of a DECIMAL(20, 2) column are computed.  *)
(* The table is the set of its rows; `persisted` is what is committed,     *)
(* `view` what the open transaction sees.                                  *)
(***************************************************************************)
EXTENDS Integers, Sequences, FiniteSets, TLC

VARIABLES
    \* ---- scroll_to_bottom / LazyLoadScrollStep.run ----
    spc,            \* position in the scroll step
    max_attempts,   \* LazyLoadScrollStep.max_attempts
    attempt,        \* loop variable of scroll_to_bottom
    last_h,         \* last_h
    scrolled,       \* scrolled
    scrollReport,   \* StepReport returned by LazyLoadScrollStep.run, or None
    heightLog,      \* history: every height the driver reported, in order
    scrollsDone,    \* history: scrollTo scripts the driver executed
    \* ---- bring_into_view_and_click ----
    cpc,            \* position in bring_into_view_and_click
    attempts,       \* parameter attempts
    tries,          \* iterations of the for loop begun
    present,        \* present
    locator,        \* parameter locator
    clickResult,    \* returned pair, None while running / when raised
    clickLog,       \* history: outcome of every driver call, in order
    \* ---- OpenAnalystRatingsStep.run ----
    apc,            \* position in OpenAnalystRatingsStep.run
    combo,          \* (combo_present, combo_clicked), None before the first call returns
    stepReport,     \* StepReport returned, or None
    \* ---- fetch_variants ----
    pc,             \* position in fetch_variants
    url,            \* parameter url
    variants,       \* parameter variants
    name_prefix,    \* parameter name_prefix
    cache,          \* the cache directory: path -> document or Absent
    cacheAtStart,   \* history: the cache when the invocation started
    driver,         \* local driver: a session id, or NoDriver (None)
    sessions,       \* history: session id -> "open" | "closed"
    quitLog,        \* history: session ids driver.quit() was called on
    curUrl,         \* environment: the url the session currently shows
    html,           \* local html
    captureLog,     \* history: <<variant, document or Absent>> of every page_source read
    results,        \* local results: variant -> path
    pending,        \* exception propagating out of the try block, or None
    outcome,        \* "running" | "returned" | "raised"
    navLog,         \* history: <<url, session id>> of every driver.get
    writeLog,       \* history: <<path, document>> of every cache write
    stepOutcomes,   \* history: how each OpenAnalystRatingsStep.run ended
    \* ---- the store: db.py, crud.py ----
    settings,       \* settings.host, port, user, password, database, table
    schema,         \* server: "none" | "database" | "table" (what has been created)
    persisted,      \* server: the committed rows of the earnings table
    view,           \* server: the rows the open connection's transaction sees
    conn,           \* local conn: "none" | "open" | "closed"
    connects,       \* history: mysql.connector.connect calls of the operation
    next_id,        \* server: AUTO_INCREMENT counter of the table
    now,            \* server: CURRENT_TIMESTAMP, one tick per data operation
    dpc,            \* position in the store operation
    op,             \* the operation called: "upsert" | "load" | "direct" | ...
    earn,           \* parameter e of upsert_earnings_row
    rows,           \* the csv.DictReader rows behind parameter rows
    default_ticker, \* parameter default_ticker
    commit_every,   \* parameter commit_every
    pos,            \* rows consumed from the iterator
    batch,          \* local batch
    stats,          \* local stats
    cur,            \* cur.rowcount, cur.lastrowid of the last statement, or Null
    dbResult,       \* value returned by the operation, or Null
    dbOutcome,      \* "idle" | "running" | "returned" | the exception raised
    executed,       \* history: the records executed by the operation, in order
    committed,      \* history: how many of them a commit has covered
    startRows,      \* history: persisted when the operation started
    startId,        \* history: next_id when the operation started
    prev,           \* history: e of the single upsert that returned just before
    \* ---- cli.main ----
    kpc,            \* position in main
    args,           \* parsed command line: ticker, variant, sink, parse_json
    tickers,        \* local tickers
    ti,             \* subjects of tickers the loop has taken
    failures,       \* local failures: ticker -> message
    attemptLog,     \* history: <<ticker, how run_for_ticker ended>>
    exitStatus,     \* "none" | "ok" | the SystemExit raised
    \* ---- run_pipeline.run_for_ticker ----
    rpc,            \* position in run_for_ticker
    run_ticker,     \* parameter ticker
    run_results,    \* local results: the keys of the dict
    sinkLog,        \* history: <<sink, "ok" | "raised">> of every sink attempted
    runOutcome,     \* "idle" | "running" | "returned" | "raised"
    \* ---- the parsers: eh_helper.py, history_parser.py, controller.py ----
    fn,             \* the function called, "none" when none is
    arg,            \* its argument
    given,          \* history: what the argument was composed of; the platform
    mid,            \* parse_earnings: the rows parse_rows returned, or Null
    ret,            \* the value returned, Null before the return
    \* ---- paths.delete_old_files ----
    upc,            \* position in delete_old_files
    dirExists,      \* environment: directory.exists()
    files,          \* environment: file name -> modification time, or Absent
    filesAtStart,   \* history: files when the purge was called
    patterns,       \* parameter patterns
    max_age_hours,  \* parameter max_age_hours
    pnow,           \* local now
    pidx,           \* patterns begun
    todo,           \* paths the glob of the current pattern has still to yield
    file_path,      \* local file_path, Null outside the loop body
    age,            \* local age
    count,          \* local count
    purgeRet,       \* the value returned, Null before the return
    deletedLog,     \* history: [name, seen (mtime read by stat), mtime (when unlinked)]
    passedLog,      \* history: <<name, why>> of every path yielded and not deleted
    envLog,         \* history: <<what, name>> of the steps other processes took on the directory
    \* ---- run_pipeline.run_for_ticker, lines 195-212 ----
    fpc,            \* position in the forced refresh of run_for_ticker
    f_ticker,       \* parameter ticker
    f_variant,      \* parameter variant
    force_refresh,  \* parameter force_refresh
    needs,          \* variants _delete_cache_if_exists has still to take
    unlinkLog,      \* history: <<path, how p.unlink() ended>>
    \* ---- two concurrent fetch_variants invocations ----
    qpc,            \* process -> position in fetch_variants
    qvariant,       \* the variant both processes ask for
    qdriver,        \* process -> local driver (a session id, or NoDriver)
    qhtml,          \* process -> local html
    qresults,       \* process -> the variants in local results
    qsaw,           \* history: process -> variant -> what _exists answered at lines 133-158
    qdirty,         \* process -> another process wrote the file it has open
    entries,        \* the cache directory: variant -> content, or Absent
    qsessions,      \* history: the session ids started
    qwrites         \* history: [by, variant, html, torn] of every completed write

scrollVars == <<spc, max_attempts, attempt, last_h, scrolled, scrollReport,
                heightLog, scrollsDone>>
clickVars  == <<cpc, attempts, tries, present, locator, clickResult, clickLog>>
stepVars   == <<apc, combo, stepReport>>
fetchVars  == <<pc, url, variants, name_prefix, cache, cacheAtStart, driver,
                sessions, quitLog, curUrl, html, captureLog, results, pending, outcome,
                navLog, writeLog, stepOutcomes>>
storeVars  == <<settings, schema, persisted, view, conn, connects, next_id, now, dpc,
                op, earn, rows, default_ticker, commit_every, pos, batch, stats,
                cur, dbResult, dbOutcome, executed, committed, startRows, startId, prev>>
cliVars    == <<kpc, args, tickers, ti, failures, attemptLog, exitStatus>>
runVars    == <<rpc, run_ticker, run_results, sinkLog, runOutcome>>
appVars    == <<storeVars, cliVars, runVars>>
parseVars  == <<fn, arg, given, mid, ret>>
purgeVars  == <<upc, dirExists, files, filesAtStart, patterns, max_age_hours, pnow, pidx,
                todo, file_path, age, count, purgeRet, deletedLog, passedLog, envLog>>
refreshVars == <<fpc, f_ticker, f_variant, force_refresh, needs, unlinkLog>>
raceVars   == <<qpc, qvariant, qdriver, qhtml, qresults, qsaw, qdirty, entries,
                qsessions, qwrites>>
libVars    == <<parseVars, purgeVars, refreshVars, raceVars>>
vars == <<scrollVars, clickVars, stepVars, fetchVars, appVars, libVars>>

None == "None"
\* an absent pair / report / document, of the type of the present ones
NoPair == <<>>
NoReport == [name |-> "None"]
Absent == [absent |-> TRUE]
NoDriver == 0
\* Optional[...]: Python's None (SQL NULL), or a value
Null == [some |-> FALSE]
Some(v) == [some |-> TRUE, v |-> v]

(***************************************************************************)
(* Bounds of the model.                                                    *)
(***************************************************************************)
MaxHeight == 2            \* page heights are 0..MaxHeight
MaxScrollAttempts == 4    \* SpecScroll draws max_attempts from -1..MaxScrollAttempts
MaxClickAttempts == 2     \* SpecClick draws attempts from -1..MaxClickAttempts
MaxOps == 2               \* data operations on the store in one behaviour
MaxRows == 3              \* csv rows handed to one batched upsert
MaxCommitEvery == 2       \* commit_every is drawn from 1..MaxCommitEvery and the default

Heights == 0..MaxHeight

(***************************************************************************)
(* Program constants.                                                      *)
(***************************************************************************)
DefaultScrollAttempts == 3   \* LazyLoadScrollStep.max_attempts
DefaultClickAttempts == 2    \* bring_into_view_and_click(attempts=2)
DefaultCommitEvery == 500    \* load_earnings_rows(commit_every=500)
DefaultPort == 3306          \* settings.port

\* settings as the process starts with them (text abbreviated to one character)
DefaultSettings ==
    [host |-> <<"h">>, port |-> [int |-> DefaultPort], user |-> <<"u">>,
     password |-> Some(<<"p">>), database |-> <<"d">>, table |-> <<"t">>]

\* stats = {"inserted": 0, "updated": 0, "unchanged": 0, "attempted": 0}
ZeroStats == [inserted |-> 0, updated |-> 0, unchanged |-> 0, attempted |-> 0]

(***************************************************************************)
(* The components at rest: a specification of one component holds the      *)
(* others in these states.                                                 *)
(***************************************************************************)
StoreIdle ==
    /\ settings = DefaultSettings /\ schema = "none" /\ persisted = {} /\ view = {}
    /\ conn = "none" /\ connects = 0 /\ next_id = 1 /\ now = 0
    /\ dpc = "idle" /\ op = "none" /\ earn = Null /\ rows = <<>>
    /\ default_ticker = <<>> /\ commit_every = 0 /\ pos = 0 /\ batch = 0
    /\ stats = ZeroStats /\ cur = Null /\ dbResult = Null /\ dbOutcome = "idle"
    /\ executed = <<>> /\ committed = 0 /\ startRows = {} /\ startId = 1
    /\ prev = Null

RunIdle ==
    /\ rpc = "idle" /\ run_ticker = <<>> /\ run_results = {} /\ sinkLog = <<>>
    /\ runOutcome = "idle"

CliIdle ==
    /\ kpc = "idle" /\ args = Null /\ tickers = <<>> /\ ti = 0 /\ failures = {}
    /\ attemptLog = <<>> /\ exitStatus = "none"

ParseIdle == fn = "none" /\ arg = Null /\ given = Null /\ mid = Null /\ ret = Null

PurgeIdle ==
    /\ upc = "idle" /\ dirExists = FALSE /\ files = <<>> /\ filesAtStart = <<>>
    /\ patterns = <<>> /\ max_age_hours = 0 /\ pnow = 0 /\ pidx = 0 /\ todo = {}
    /\ file_path = Null /\ age = 0 /\ count = 0 /\ purgeRet = Null
    /\ deletedLog = <<>> /\ passedLog = <<>> /\ envLog = <<>>

RefreshIdle ==
    /\ fpc = "idle" /\ f_ticker = <<>> /\ f_variant = "none" /\ force_refresh = FALSE
    /\ needs = <<>> /\ unlinkLog = <<>>

RaceIdle ==
    /\ qpc = <<>> /\ qvariant = "none" /\ qdriver = <<>> /\ qhtml = <<>>
    /\ qresults = <<>> /\ qsaw = <<>> /\ qdirty = <<>> /\ entries = <<>>
    /\ qsessions = {} /\ qwrites = <<>>

LibIdle == ParseIdle /\ PurgeIdle /\ RefreshIdle /\ RaceIdle

(***************************************************************************)
(* Text helpers (str.lower, str.upper, str.strip, str.rstrip, `in`).       *)
(***************************************************************************)
LowerLetters ==
    <<"a","b","c","d","e","f","g","h","i","j","k","l","m",
      "n","o","p","q","r","s","t","u","v","w","x","y","z">>
UpperLetters ==
    <<"A","B","C","D","E","F","G","H","I","J","K","L","M",
      "N","O","P","Q","R","S","T","U","V","W","X","Y","Z">>

LowerChar(c) ==
    IF \E i \in 1..26 : UpperLetters[i] = c
    THEN LowerLetters[CHOOSE i \in 1..26 : UpperLetters[i] = c]
    ELSE c

UpperChar(c) ==
    IF \E i \in 1..26 : LowerLetters[i] = c
    THEN UpperLetters[CHOOSE i \in 1..26 : LowerLetters[i] = c]
    ELSE c

Lower(s) == [i \in 1..Len(s) |-> LowerChar(s[i])]
Upper(s) == [i \in 1..Len(s) |-> UpperChar(s[i])]

RECURSIVE LStrip(_, _)
LStrip(s, ch) == IF s # <<>> /\ Head(s) = ch THEN LStrip(Tail(s), ch) ELSE s

RECURSIVE RStrip(_, _)
RStrip(s, ch) ==
    IF s # <<>> /\ s[Len(s)] = ch THEN RStrip(SubSeq(s, 1, Len(s) - 1), ch) ELSE s

Strip(s) == RStrip(LStrip(s, " "), " ")

Contains(hay, needle) ==
    \E i \in 0..(Len(hay) - Len(needle)) : SubSeq(hay, i + 1, i + Len(needle)) = needle

(***************************************************************************)
(* scroll_to_bottom and LazyLoadScrollStep.run                             *)
(***************************************************************************)
\* the loop without the early exit on a stable height
ScrollStableNever(new_h, old_h) == FALSE

\* for attempt in range(max_attempts)
ScrollLoopContinues(a, m) == a < m

\* if new_h == last_h: break
ScrollStable(new_h, old_h) == new_h = old_h

\* StepReport(name, present=True, notes=f"scrolled={actual_scrolls}/{max_attempts}")
ScrollOkReport(n, m) ==
    [name |-> "lazy_scroll", present |-> TRUE, scrolled |-> n, of |-> m]

\* StepReport(name, present=False, notes=str(e))
ScrollErrReport == [name |-> "lazy_scroll", present |-> FALSE, notes |-> "error"]

ScrollIdle ==
    /\ spc = "idle" /\ max_attempts = 0 /\ attempt = 0 /\ last_h = 0
    /\ scrolled = 0 /\ scrollReport = NoReport /\ heightLog = <<>> /\ scrollsDone = 0

\* LazyLoadScrollStep(max_attempts=m).run(driver, wait) is entered
ScrollCall(m) ==
    /\ spc' = "read_first" /\ max_attempts' = m /\ attempt' = 0 /\ last_h' = 0
    /\ scrolled' = 0 /\ scrollReport' = NoReport /\ heightLog' = <<>> /\ scrollsDone' = 0

\* an exception inside scroll_to_bottom is caught by run(): except Exception
ScrollCaught ==
    /\ spc' = "done"
    /\ scrollReport' = ScrollErrReport
    /\ UNCHANGED <<max_attempts, attempt, last_h, scrolled, heightLog, scrollsDone>>

\* last_h = driver.execute_script("return document.body.scrollHeight"); scrolled = 0
ScrollReadFirst ==
    /\ spc = "read_first"
    /\ UNCHANGED <<clickVars, stepVars, fetchVars, appVars, libVars>>
    /\ \/ \E h \in Heights :
             /\ last_h' = h
             /\ heightLog' = Append(heightLog, h)
             /\ scrolled' = 0
             /\ attempt' = 0
             /\ spc' = "loop"
             /\ UNCHANGED <<max_attempts, scrollReport, scrollsDone>>
       \/ ScrollCaught

\* the for statement: next iteration, or fall out to `return scrolled`
ScrollLoop ==
    /\ spc = "loop"
    /\ UNCHANGED <<clickVars, stepVars, fetchVars, appVars, libVars>>
    /\ spc' = IF ScrollLoopContinues(attempt, max_attempts) THEN "scroll" ELSE "return"
    /\ UNCHANGED <<max_attempts, attempt, last_h, scrolled, scrollReport,
                   heightLog, scrollsDone>>

\* driver.execute_script("window.scrollTo(...)"); time.sleep(pause); scrolled += 1
ScrollExec ==
    /\ spc = "scroll"
    /\ UNCHANGED <<clickVars, stepVars, fetchVars, appVars, libVars>>
    /\ \/ /\ scrollsDone' = scrollsDone + 1
          /\ scrolled' = scrolled + 1
          /\ spc' = "read_new"
          /\ UNCHANGED <<max_attempts, attempt, last_h, scrollReport, heightLog>>
       \/ ScrollCaught

\* new_h = ...scrollHeight; if new_h == last_h: break; last_h = new_h
ScrollReadNew ==
    /\ spc = "read_new"
    /\ UNCHANGED <<clickVars, stepVars, fetchVars, appVars, libVars>>
    /\ \/ \E h \in Heights :
             /\ heightLog' = Append(heightLog, h)
             /\ IF ScrollStable(h, last_h)
                   THEN /\ spc' = "return"
                        /\ UNCHANGED <<last_h, attempt>>
                   ELSE /\ last_h' = h
                        /\ attempt' = attempt + 1
                        /\ spc' = "loop"
             /\ UNCHANGED <<max_attempts, scrolled, scrollReport, scrollsDone>>
       \/ ScrollCaught

\* return scrolled; run() wraps it into the StepReport
ScrollReturn ==
    /\ spc = "return"
    /\ UNCHANGED <<clickVars, stepVars, fetchVars, appVars, libVars>>
    /\ scrollReport' = ScrollOkReport(scrolled, max_attempts)
    /\ spc' = "done"
    /\ UNCHANGED <<max_attempts, attempt, last_h, scrolled, heightLog, scrollsDone>>

ScrollStep ==
    \/ ScrollReadFirst
    \/ ScrollLoop
    \/ ScrollExec
    \/ ScrollReadNew
    \/ ScrollReturn

(***************************************************************************)
(* bring_into_view_and_click                                               *)
(***************************************************************************)
\* what a driver call can do: succeed, or raise one of the exception kinds
\* (TimeoutException, StaleElementReferenceException, any other exception)
Raised == {"timeout", "stale", "other"}
DriverOutcomes == {"ok"} \cup Raised

\* except (StaleElementReferenceException, TimeoutException): pass
ClickCatches(e) == e \in {"stale", "timeout"}

\* the retry loop running one iteration too many
ClickLoopOffByOne(t, n) == t <= n

\* for _ in range(attempts)
ClickLoopContinues(t, n) == t < n

ClickIdle ==
    /\ cpc = "idle" /\ attempts = 0 /\ tries = 0 /\ present = FALSE
    /\ locator = None /\ clickResult = NoPair /\ clickLog = <<>>

\* bring_into_view_and_click(driver, wait, loc, attempts=n) is entered
ClickCall(loc, n) ==
    /\ cpc' = "loop" /\ attempts' = n /\ tries' = 0 /\ present' = FALSE
    /\ locator' = loc /\ clickResult' = NoPair /\ clickLog' = <<>>

\* the outer except clause: a caught exception ends the iteration
\* (time.sleep(0.2), next iteration), any other leaves the function
ClickExcept(e) ==
    cpc' = IF ClickCatches(e) THEN "loop" ELSE "raised"

\* the for statement: next iteration, or fall out to `return present, False`
ClickLoop ==
    /\ cpc = "loop"
    /\ UNCHANGED <<scrollVars, stepVars, fetchVars, appVars, libVars>>
    /\ IF ClickLoopContinues(tries, attempts)
          THEN /\ tries' = tries + 1
               /\ cpc' = "lookup"
               /\ UNCHANGED clickResult
          ELSE /\ clickResult' = <<present, FALSE>>
               /\ cpc' = "done"
               /\ UNCHANGED tries
    /\ UNCHANGED <<attempts, present, locator, clickLog>>

\* el = wait.until(EC.element_to_be_clickable(locator)); present = True
ClickLookup ==
    /\ cpc = "lookup"
    /\ UNCHANGED <<scrollVars, stepVars, fetchVars, appVars, libVars>>
    /\ \E o \in DriverOutcomes :
          /\ clickLog' = Append(clickLog, <<"lookup", o>>)
          /\ IF o = "ok"
                THEN present' = TRUE /\ cpc' = "into_view"
                ELSE UNCHANGED present /\ ClickExcept(o)
    /\ UNCHANGED <<attempts, tries, locator, clickResult>>

\* driver.execute_script("arguments[0].scrollIntoView(...)", el); time.sleep(0.15)
ClickIntoView ==
    /\ cpc = "into_view"
    /\ UNCHANGED <<scrollVars, stepVars, fetchVars, appVars, libVars>>
    /\ \E o \in DriverOutcomes :
          /\ clickLog' = Append(clickLog, <<"into_view", o>>)
          /\ IF o = "ok" THEN cpc' = "move" ELSE ClickExcept(o)
    /\ UNCHANGED <<attempts, tries, present, locator, clickResult>>

\* try: ActionChains(driver).move_to_element(el).pause(0.05).perform()
\* except Exception: pass
ClickMove ==
    /\ cpc = "move"
    /\ UNCHANGED <<scrollVars, stepVars, fetchVars, appVars, libVars>>
    /\ \E o \in DriverOutcomes :
          clickLog' = Append(clickLog, <<"move", o>>)
    /\ cpc' = "click"
    /\ UNCHANGED <<attempts, tries, present, locator, clickResult>>

\* try: el.click(); return True, True   except Exception: (programmatic click)
ClickDirect ==
    /\ cpc = "click"
    /\ UNCHANGED <<scrollVars, stepVars, fetchVars, appVars, libVars>>
    /\ \E o \in DriverOutcomes :
          /\ clickLog' = Append(clickLog, <<"click", o>>)
          /\ IF o = "ok"
                THEN clickResult' = <<TRUE, TRUE>> /\ cpc' = "done"
                ELSE UNCHANGED clickResult /\ cpc' = "js_click"
    /\ UNCHANGED <<attempts, tries, present, locator>>

\* try: driver.execute_script("arguments[0].click();", el); return True, True
\* except Exception: pass     (then time.sleep(0.2) and the next iteration)
ClickProgrammatic ==
    /\ cpc = "js_click"
    /\ UNCHANGED <<scrollVars, stepVars, fetchVars, appVars, libVars>>
    /\ \E o \in DriverOutcomes :
          /\ clickLog' = Append(clickLog, <<"js_click", o>>)
          /\ IF o = "ok"
                THEN clickResult' = <<TRUE, TRUE>> /\ cpc' = "done"
                ELSE UNCHANGED clickResult /\ cpc' = "loop"
    /\ UNCHANGED <<attempts, tries, present, locator>>

ClickStep ==
    \/ ClickLoop
    \/ ClickLookup
    \/ ClickIntoView
    \/ ClickMove
    \/ ClickDirect
    \/ ClickProgrammatic

\* the frame is left: the locals are gone
ClickReset ==
    /\ cpc' = "idle" /\ attempts' = 0 /\ tries' = 0 /\ present' = FALSE
    /\ locator' = None /\ clickResult' = NoPair /\ clickLog' = <<>>

ScrollReset ==
    /\ spc' = "idle" /\ max_attempts' = 0 /\ attempt' = 0 /\ last_h' = 0
    /\ scrolled' = 0 /\ scrollReport' = NoReport /\ heightLog' = <<>> /\ scrollsDone' = 0

(***************************************************************************)
(* OpenAnalystRatingsStep.run                                              *)
(***************************************************************************)
ComboLocator == "combobox Months"
OptionLocator == "li 3 Months"

\* StepReport(self.name, present=True, clicked=1)
StepOkReport == [name |-> "analyst", present |-> TRUE, clicked |-> 1, notes |-> ""]

\* StepReport(self.name, present=True, clicked=int(combo_clicked), notes="no_duration_control")
StepNoControlReport(combo_clicked) ==
    [name |-> "analyst", present |-> TRUE,
     clicked |-> IF combo_clicked THEN 1 ELSE 0, notes |-> "no_duration_control"]

StepIdle == apc = "idle" /\ combo = NoPair /\ stepReport = NoReport

StepCall == apc' = "start" /\ combo' = NoPair /\ stepReport' = NoReport

StepReset == apc' = "idle" /\ combo' = NoPair /\ stepReport' = NoReport

\* combo_present, combo_clicked = bring_into_view_and_click(driver, wait, <combobox>)
StepComboCall ==
    /\ apc = "start"
    /\ UNCHANGED <<scrollVars, fetchVars, appVars, libVars>>
    /\ ClickCall(ComboLocator, DefaultClickAttempts)
    /\ apc' = "combo_wait"
    /\ UNCHANGED <<combo, stepReport>>

\* the first call is back: if combo_present and combo_clicked: time.sleep(0.15);
\* _p, _c = bring_into_view_and_click(driver, wait, <li 3 Months>)
\* else: return StepReport(..., notes="no_duration_control")
StepComboReturn ==
    /\ apc = "combo_wait"
    /\ cpc \in {"done", "raised"}
    /\ UNCHANGED <<scrollVars, fetchVars, appVars, libVars>>
    /\ IF cpc = "raised"
          THEN /\ apc' = "raised"
               /\ ClickReset
               /\ UNCHANGED <<combo, stepReport>>
          ELSE /\ combo' = clickResult
               /\ IF clickResult[1] /\ clickResult[2]
                     THEN /\ ClickCall(OptionLocator, DefaultClickAttempts)
                          /\ apc' = "option_wait"
                          /\ UNCHANGED stepReport
                     ELSE /\ ClickReset
                          /\ stepReport' = StepNoControlReport(clickResult[2])
                          /\ apc' = "done"

\* the second call is back: if _p and _c: return StepReport(..., clicked=1)
\* else: return StepReport(..., clicked=int(combo_clicked), notes="no_duration_control")
StepOptionReturn ==
    /\ apc = "option_wait"
    /\ cpc \in {"done", "raised"}
    /\ UNCHANGED <<scrollVars, fetchVars, appVars, libVars>>
    /\ ClickReset
    /\ UNCHANGED combo
    /\ IF cpc = "raised"
          THEN /\ apc' = "raised"
               /\ UNCHANGED stepReport
          ELSE /\ apc' = "done"
               /\ stepReport' = IF clickResult[1] /\ clickResult[2]
                                   THEN StepOkReport
                                   ELSE StepNoControlReport(combo[2])

AnalystStep ==
    \/ StepComboCall
    \/ StepComboReturn
    \/ StepOptionReturn

(***************************************************************************)
(* EarningsHubModularScraper: constants, inputs and sample documents       *)
(***************************************************************************)
VARIANT_OVERVIEW == "overview"
VARIANT_FULL == "full"
VARIANT_EARNINGS == "earnings"
VARIANT_ANALYST == "analyst"
ALLOWED == {VARIANT_OVERVIEW, VARIANT_FULL}

\* the three kinds of cached document
DocVariants == {VARIANT_OVERVIEW, VARIANT_ANALYST, VARIANT_EARNINGS}

\* "symbol not found"
Needle == <<"s","y","m","b","o","l"," ","n","o","t"," ","f","o","u","n","d">>

\* page texts the source can serve
BodyData == <<"<","p",">","A",":","1">>
BodyNearMiss == <<"s","y","m","b","o","l"," ","f","o","u","n","d">>
BodyNotFoundLower == Needle
BodyNotFoundMixed ==
    <<"<","p",">","S","y","m","b","o","l"," ","N","o","t"," ","F","o","u","n","d","<">>
SourceBodies == {BodyData, BodyNearMiss, BodyNotFoundLower, BodyNotFoundMixed}

\* a document already in the cache directory before the invocation
CachedDoc == [page |-> <<"?">>, body |-> <<"o","l","d">>]

\* values of the url parameter: the quote page, with and without a trailing slash
Urls == { <<"/","q">>, <<"/","q","/">> }

\* values of the variants parameter
VariantInputs ==
    { <<>>, <<VARIANT_OVERVIEW>>, <<VARIANT_FULL>>,
      <<VARIANT_OVERVIEW, VARIANT_FULL, VARIANT_OVERVIEW>>, <<VARIANT_ANALYST>> }

\* values of the name_prefix parameter
Tickers == { <<>>, <<"a">>, <<" ","A"," ">> }

\* subjects with files in the cache directory
Subjects == { <<"A">>, <<"B">> }
CachePaths == { <<s, v>> : s \in Subjects, v \in DocVariants }

Range(f) == { f[i] : i \in DOMAIN f }

\* order = [v for v in dict.fromkeys(variants)]
RECURSIVE Dedupe(_)
Dedupe(seq) ==
    IF seq = <<>> THEN <<>>
    ELSE LET init == Dedupe(SubSeq(seq, 1, Len(seq) - 1))
             x == seq[Len(seq)]
         IN  IF x \in Range(init) THEN init ELSE Append(init, x)

\* _no_results without lower(): the match is case-sensitive
NoResultsCaseSensitive(text) == Contains(text, Needle)

\* _no_results: "symbol not found" in html.lower()
NoResults(text) == Contains(Lower(text), Needle)

\* _friendly_path: cache_dir / f"{ticker.strip().upper()}_{variant}.html"
FriendlyPath(ticker, variant) == <<Upper(Strip(ticker)), variant>>

\* _exists
Exists(c, ticker, variant) == c[FriendlyPath(ticker, variant)] # Absent

\* want_overview, want_earnings
WantOverview(order) == VARIANT_OVERVIEW \in Range(order) \/ VARIANT_FULL \in Range(order)
WantEarnings(order) == VARIANT_FULL \in Range(order)

\* the sub-documents a request stands for
Required(order) ==
    IF VARIANT_FULL \in Range(order)
       THEN {VARIANT_OVERVIEW, VARIANT_ANALYST, VARIANT_EARNINGS}
       ELSE {VARIANT_OVERVIEW, VARIANT_ANALYST}

\* the cache tests without the branch for `full`: a full request is never served
\* from the cache
CacheSatisfiedNoFull(c, ticker, order) ==
    IF VARIANT_FULL \in Range(order)
       THEN FALSE
       ELSE /\ Exists(c, ticker, VARIANT_OVERVIEW)
            /\ Exists(c, ticker, VARIANT_ANALYST)

\* the cache tests as a partial optimisation: a cached overview is enough
CacheSatisfiedPartial(c, ticker, order) == Exists(c, ticker, VARIANT_OVERVIEW)

\* the two cache tests at the head of fetch_variants
CacheSatisfied(c, ticker, order) ==
    IF VARIANT_FULL \in Range(order)
       THEN /\ Exists(c, ticker, VARIANT_OVERVIEW)
            /\ Exists(c, ticker, VARIANT_ANALYST)
            /\ Exists(c, ticker, VARIANT_EARNINGS)
       ELSE /\ Exists(c, ticker, VARIANT_OVERVIEW)
            /\ Exists(c, ticker, VARIANT_ANALYST)

\* the results filled in by the cache branch taken
CachedResults(ticker, order) ==
    [v \in Required(order) |-> FriendlyPath(ticker, v)]

\* not order or any(v not in ALLOWED for v in order); not name_prefix
BadArguments(order, ticker) ==
    \/ order = <<>>
    \/ \E v \in Range(order) : v \notin ALLOWED
    \/ ticker = <<>>

\* url.rstrip("/") + "/analysts", url.rstrip("/") + "/earnings"
AnalystsUrl(u) == RStrip(u, "/") \o <<"/","a","n","a","l","y","s","t","s">>
EarningsUrl(u) == RStrip(u, "/") \o <<"/","e","a","r","n","i","n","g","s">>

\* the analyst test without the cache lookup
NeedAnalystAlways(c, ticker) == TRUE

\* if not self._exists(name_prefix, VARIANT_ANALYST)
NeedAnalyst(c, ticker) == ~Exists(c, ticker, VARIANT_ANALYST)

\* the earnings test without the cache lookup
NeedEarningsAlways(c, ticker, order) == WantEarnings(order)

\* if want_earnings and not self._exists(name_prefix, VARIANT_EARNINGS)
NeedEarnings(c, ticker, order) ==
    WantEarnings(order) /\ ~Exists(c, ticker, VARIANT_EARNINGS)

\* finally: if driver: ... driver.quit()
MustQuit(d) == d # NoDriver

(***************************************************************************)
(* fetch_variants                                                          *)
(***************************************************************************)
Order == Dedupe(variants)

fetchParams == <<url, variants, name_prefix, cacheAtStart>>

FetchIdle ==
    /\ pc = "idle" /\ url = <<>> /\ variants = <<>> /\ name_prefix = <<>>
    /\ cache = [p \in CachePaths |-> Absent] /\ cacheAtStart = cache
    /\ driver = NoDriver /\ sessions = <<>> /\ quitLog = <<>> /\ curUrl = <<>>
    /\ html = Absent /\ captureLog = <<>> /\ results = <<>> /\ pending = None /\ outcome = "idle"
    /\ navLog = <<>> /\ writeLog = <<>> /\ stepOutcomes = <<>>

\* lines 99-124: argument checks and the cache-satisfied test
FetchStart ==
    /\ pc = "start"
    /\ UNCHANGED <<scrollVars, clickVars, stepVars, appVars, libVars>>
    /\ UNCHANGED <<fetchParams, cache, driver, sessions, quitLog, curUrl, html, captureLog,
                   navLog, writeLog, stepOutcomes>>
    /\ IF BadArguments(Order, name_prefix)
          THEN /\ pending' = "ValueError"
               /\ outcome' = "raised"
               /\ pc' = "done"
               /\ UNCHANGED results
          ELSE IF CacheSatisfied(cache, name_prefix, Order)
          THEN /\ results' = CachedResults(name_prefix, Order)
               /\ outcome' = "returned"
               /\ pc' = "done"
               /\ UNCHANGED pending
          ELSE /\ pc' = "create_driver"
               /\ UNCHANGED <<results, outcome, pending>>

\* driver = self._create_driver(): webdriver.Chrome(...) starts the session,
\* driver.set_page_load_timeout(...) configures it; either may raise, and
\* only a returned driver is assigned to the local
CreateDriver ==
    /\ pc = "create_driver"
    /\ UNCHANGED <<scrollVars, clickVars, stepVars, appVars, libVars>>
    /\ UNCHANGED <<fetchParams, cache, quitLog, curUrl, html, captureLog, results, outcome,
                   navLog, writeLog, stepOutcomes>>
    /\ \/ /\ pending' = "WebDriverException"
          /\ pc' = "finally"
          /\ UNCHANGED <<driver, sessions>>
       \/ LET sid == Cardinality(DOMAIN sessions) + 1 IN
          /\ sessions' = sessions @@ (sid :> "open")
          /\ \/ /\ driver' = sid
                /\ pc' = "nav_base"
                /\ UNCHANGED pending
             \/ /\ pending' = "WebDriverException"
                /\ pc' = "finally"
                /\ UNCHANGED driver

\* self._navigate(driver, u): driver.get(u) and the two waits; any may raise
Navigate(u, okpc) ==
    /\ driver # NoDriver
    /\ navLog' = Append(navLog, <<u, driver>>)
    /\ \/ /\ curUrl' = u
          /\ pc' = okpc
          /\ UNCHANGED pending
       \/ /\ curUrl' \in {curUrl, u}
          /\ pending' = "WebDriverException"
          /\ pc' = "finally"

\* html = driver.page_source
\* if not _no_results(html): results[variant] = self._write(name_prefix, variant, html)
\* page_source may raise; write_text may raise, leaving no file or a truncated one
Capture(variant, nextpc) ==
    \/ /\ captureLog' = Append(captureLog, <<variant, Absent>>)
       /\ pending' = "WebDriverException"
       /\ pc' = "finally"
       /\ UNCHANGED <<html, cache, results, writeLog>>
    \/ \E b \in SourceBodies :
          LET doc == [page |-> curUrl, body |-> b]
              p == FriendlyPath(name_prefix, variant)
          IN  /\ html' = doc
              /\ captureLog' = Append(captureLog, <<variant, doc>>)
              /\ IF ~NoResults(b)
                    THEN \/ /\ cache' = [cache EXCEPT ![p] = doc]
                            /\ writeLog' = Append(writeLog, <<p, doc>>)
                            /\ results' = (variant :> p) @@ results
                            /\ pc' = nextpc
                            /\ UNCHANGED pending
                         \/ /\ \E left \in {cache[p], [page |-> curUrl, body |-> <<>>]} :
                                  /\ cache' = [cache EXCEPT ![p] = left]
                                  /\ writeLog' = IF left = cache[p] THEN writeLog
                                                 ELSE Append(writeLog, <<p, left>>)
                            /\ pending' = "OSError"
                            /\ pc' = "finally"
                            /\ UNCHANGED results
                    ELSE /\ pc' = nextpc
                         /\ UNCHANGED <<cache, results, writeLog, pending>>

\* self._navigate(driver, url)
NavBase ==
    /\ pc = "nav_base"
    /\ UNCHANGED <<scrollVars, clickVars, stepVars, appVars, libVars>>
    /\ UNCHANGED <<fetchParams, cache, driver, sessions, quitLog, html, captureLog, results,
                   outcome, writeLog, stepOutcomes>>
    /\ Navigate(url, "overview_check")

\* if want_overview: if not self._exists(name_prefix, VARIANT_OVERVIEW)
OverviewCheck ==
    /\ pc = "overview_check"
    /\ UNCHANGED <<scrollVars, clickVars, stepVars, appVars, libVars>>
    /\ UNCHANGED <<fetchParams, cache, driver, sessions, quitLog, curUrl, html, captureLog,
                   results, pending, outcome, navLog, writeLog, stepOutcomes>>
    /\ pc' = IF ~WantOverview(Order) THEN "earnings_check"
             ELSE IF ~Exists(cache, name_prefix, VARIANT_OVERVIEW) THEN "overview_scroll"
             ELSE "analyst_check"

\* time.sleep(1); LazyLoadScrollStep().run(driver, wait)
OverviewScrollCall ==
    /\ pc = "overview_scroll"
    /\ UNCHANGED <<clickVars, stepVars, appVars, libVars>>
    /\ UNCHANGED <<fetchParams, cache, driver, sessions, quitLog, curUrl, html, captureLog,
                   results, pending, outcome, navLog, writeLog, stepOutcomes>>
    /\ ScrollCall(DefaultScrollAttempts)
    /\ pc' = "overview_scroll_wait"

OverviewScrollReturn ==
    /\ pc = "overview_scroll_wait"
    /\ spc = "done"
    /\ UNCHANGED <<clickVars, stepVars, appVars, libVars>>
    /\ UNCHANGED <<fetchParams, cache, driver, sessions, quitLog, curUrl, html, captureLog,
                   results, pending, outcome, navLog, writeLog, stepOutcomes>>
    /\ ScrollReset
    /\ pc' = "overview_capture"

\* lines 136-141
OverviewCapture ==
    /\ pc = "overview_capture"
    /\ UNCHANGED <<scrollVars, clickVars, stepVars, appVars, libVars>>
    /\ UNCHANGED <<fetchParams, driver, sessions, quitLog, curUrl, outcome,
                   navLog, stepOutcomes>>
    /\ Capture(VARIANT_OVERVIEW, "analyst_check")

\* if not self._exists(name_prefix, VARIANT_ANALYST)
AnalystCheck ==
    /\ pc = "analyst_check"
    /\ UNCHANGED <<scrollVars, clickVars, stepVars, appVars, libVars>>
    /\ UNCHANGED <<fetchParams, cache, driver, sessions, quitLog, curUrl, html, captureLog,
                   results, pending, outcome, navLog, writeLog, stepOutcomes>>
    /\ pc' = IF NeedAnalyst(cache, name_prefix) THEN "nav_analyst" ELSE "earnings_check"

\* the ratings page fetched in a browsing session of its own
NavAnalystNewSession ==
    /\ pc = "nav_analyst"
    /\ UNCHANGED <<scrollVars, clickVars, stepVars, appVars, libVars>>
    /\ UNCHANGED <<fetchParams, cache, quitLog, html, captureLog, results,
                   outcome, writeLog, stepOutcomes, pending>>
    /\ LET sid == Cardinality(DOMAIN sessions) + 1 IN
          /\ sessions' = sessions @@ (sid :> "open")
          /\ driver' = sid
          /\ navLog' = Append(navLog, <<AnalystsUrl(url), sid>>)
    /\ curUrl' = AnalystsUrl(url)
    /\ pc' = "analyst_step"

\* analysts_url = url.rstrip("/") + "/analysts"; self._navigate(driver, analysts_url)
NavAnalyst ==
    /\ pc = "nav_analyst"
    /\ UNCHANGED <<scrollVars, clickVars, stepVars, appVars, libVars>>
    /\ UNCHANGED <<fetchParams, cache, driver, sessions, quitLog, html, captureLog, results,
                   outcome, writeLog, stepOutcomes>>
    /\ Navigate(AnalystsUrl(url), "analyst_step")

\* try: OpenAnalystRatingsStep().run(driver, wait)
AnalystStepCall ==
    /\ pc = "analyst_step"
    /\ UNCHANGED <<scrollVars, clickVars, appVars, libVars>>
    /\ UNCHANGED <<fetchParams, cache, driver, sessions, quitLog, curUrl, html, captureLog,
                   results, pending, outcome, navLog, writeLog, stepOutcomes>>
    /\ StepCall
    /\ pc' = "analyst_step_wait"

\* the step called without the try/except around it: its exception leaves the try block
AnalystStepReturnPropagates ==
    /\ pc = "analyst_step_wait"
    /\ apc \in {"done", "raised"}
    /\ UNCHANGED <<scrollVars, clickVars, appVars, libVars>>
    /\ UNCHANGED <<fetchParams, cache, driver, sessions, quitLog, curUrl, html, captureLog,
                   results, outcome, navLog, writeLog>>
    /\ stepOutcomes' = Append(stepOutcomes,
                              IF apc = "raised" THEN "raised" ELSE stepReport.notes)
    /\ StepReset
    /\ IF apc = "raised"
          THEN pending' = "WebDriverException" /\ pc' = "finally"
          ELSE UNCHANGED pending /\ pc' = "analyst_capture"

\* the step is back, with a report or an exception: except Exception: pass
AnalystStepReturn ==
    /\ pc = "analyst_step_wait"
    /\ apc \in {"done", "raised"}
    /\ UNCHANGED <<scrollVars, clickVars, appVars, libVars>>
    /\ UNCHANGED <<fetchParams, cache, driver, sessions, quitLog, curUrl, html, captureLog,
                   results, pending, outcome, navLog, writeLog>>
    /\ stepOutcomes' = Append(stepOutcomes,
                              IF apc = "raised" THEN "raised" ELSE stepReport.notes)
    /\ StepReset
    /\ pc' = "analyst_capture"

\* lines 150-156
AnalystCapture ==
    /\ pc = "analyst_capture"
    /\ UNCHANGED <<scrollVars, clickVars, stepVars, appVars, libVars>>
    /\ UNCHANGED <<fetchParams, driver, sessions, quitLog, curUrl, outcome,
                   navLog, stepOutcomes>>
    /\ Capture(VARIANT_ANALYST, "earnings_check")

\* if want_earnings and not self._exists(name_prefix, VARIANT_EARNINGS)
EarningsCheck ==
    /\ pc = "earnings_check"
    /\ UNCHANGED <<scrollVars, clickVars, stepVars, appVars, libVars>>
    /\ UNCHANGED <<fetchParams, cache, driver, sessions, quitLog, curUrl, html, captureLog,
                   results, pending, outcome, navLog, writeLog, stepOutcomes>>
    /\ pc' = IF NeedEarnings(cache, name_prefix, Order) THEN "nav_earnings" ELSE "setdefault"

\* earnings_url = url.rstrip("/") + "/earnings"; self._navigate(driver, earnings_url)
NavEarnings ==
    /\ pc = "nav_earnings"
    /\ UNCHANGED <<scrollVars, clickVars, stepVars, appVars, libVars>>
    /\ UNCHANGED <<fetchParams, cache, driver, sessions, quitLog, html, captureLog, results,
                   outcome, writeLog, stepOutcomes>>
    /\ Navigate(EarningsUrl(url), "earnings_scroll")

\* try: LazyLoadScrollStep().run(driver, wait)
EarningsScrollCall ==
    /\ pc = "earnings_scroll"
    /\ UNCHANGED <<clickVars, stepVars, appVars, libVars>>
    /\ UNCHANGED <<fetchParams, cache, driver, sessions, quitLog, curUrl, html, captureLog,
                   results, pending, outcome, navLog, writeLog, stepOutcomes>>
    /\ ScrollCall(DefaultScrollAttempts)
    /\ pc' = "earnings_scroll_wait"

\* except Exception: pass  (run() has caught everything itself)
EarningsScrollReturn ==
    /\ pc = "earnings_scroll_wait"
    /\ spc = "done"
    /\ UNCHANGED <<clickVars, stepVars, appVars, libVars>>
    /\ UNCHANGED <<fetchParams, cache, driver, sessions, quitLog, curUrl, html, captureLog,
                   results, pending, outcome, navLog, writeLog, stepOutcomes>>
    /\ ScrollReset
    /\ pc' = "earnings_capture"

\* lines 165-171
EarningsCapture ==
    /\ pc = "earnings_capture"
    /\ UNCHANGED <<scrollVars, clickVars, stepVars, appVars, libVars>>
    /\ UNCHANGED <<fetchParams, driver, sessions, quitLog, curUrl, outcome,
                   navLog, stepOutcomes>>
    /\ Capture(VARIANT_EARNINGS, "setdefault")

\* if VARIANT_FULL in order: results.setdefault(...) for the three documents
SetDefault ==
    /\ pc = "setdefault"
    /\ UNCHANGED <<scrollVars, clickVars, stepVars, appVars, libVars>>
    /\ UNCHANGED <<fetchParams, cache, driver, sessions, quitLog, curUrl, html, captureLog,
                   pending, outcome, navLog, writeLog, stepOutcomes>>
    /\ results' = IF VARIANT_FULL \in Range(Order)
                     THEN results @@ CachedResults(name_prefix, Order)
                     ELSE results
    /\ pc' = "finally"

\* finally: if driver: try: time.sleep(1); driver.quit()  except Exception: pass
\* then `return results`, or the pending exception goes on to the caller
Finally ==
    /\ pc = "finally"
    /\ UNCHANGED <<scrollVars, clickVars, stepVars, appVars, libVars>>
    /\ UNCHANGED <<fetchParams, cache, driver, curUrl, html, captureLog, results, pending,
                   navLog, writeLog, stepOutcomes>>
    /\ IF MustQuit(driver)
          THEN /\ quitLog' = Append(quitLog, driver)
               /\ \E st \in {"closed", "open"} :
                     sessions' = [sessions EXCEPT ![driver] = st]
          ELSE UNCHANGED <<quitLog, sessions>>
    /\ outcome' = IF pending = None THEN "returned" ELSE "raised"
    /\ pc' = "done"

FetchStep ==
    \/ FetchStart
    \/ CreateDriver
    \/ NavBase
    \/ OverviewCheck
    \/ OverviewScrollCall
    \/ OverviewScrollReturn
    \/ OverviewCapture
    \/ AnalystCheck
    \/ NavAnalyst
    \/ AnalystStepCall
    \/ AnalystStepReturn
    \/ AnalystCapture
    \/ EarningsCheck
    \/ NavEarnings
    \/ EarningsScrollCall
    \/ EarningsScrollReturn
    \/ EarningsCapture
    \/ SetDefault
    \/ Finally

(***************************************************************************)
(* Specifications                                                          *)
(***************************************************************************)
\* the cache directory before the invocation: any of the requested subject's
\* documents may be there; another subject's overview is
InitialCaches ==
    { c \in [CachePaths -> {Absent, CachedDoc}] :
         /\ c[<< <<"B">>, VARIANT_OVERVIEW >>] = CachedDoc
         /\ c[<< <<"B">>, VARIANT_ANALYST >>] = Absent
         /\ c[<< <<"B">>, VARIANT_EARNINGS >>] = Absent }

\* one invocation of fetch_variants
Init ==
    /\ ScrollIdle /\ ClickIdle /\ StepIdle /\ StoreIdle /\ CliIdle /\ RunIdle /\ LibIdle
    /\ pc = "start"
    /\ url \in Urls
    /\ variants \in VariantInputs
    /\ name_prefix \in Tickers
    /\ cache \in InitialCaches
    /\ cacheAtStart = cache
    /\ driver = NoDriver /\ sessions = <<>> /\ quitLog = <<>> /\ curUrl = <<>>
    /\ html = Absent /\ captureLog = <<>> /\ results = <<>> /\ pending = None /\ outcome = "running"
    /\ navLog = <<>> /\ writeLog = <<>> /\ stepOutcomes = <<>>

Next == FetchStep \/ AnalystStep \/ ClickStep \/ ScrollStep

Spec == Init /\ [][Next]_vars

\* one call of LazyLoadScrollStep(max_attempts=m).run
InitScroll ==
    /\ ClickIdle /\ StepIdle /\ FetchIdle /\ StoreIdle /\ CliIdle /\ RunIdle /\ LibIdle
    /\ spc = "read_first"
    /\ max_attempts \in -1..MaxScrollAttempts
    /\ attempt = 0 /\ last_h = 0 /\ scrolled = 0 /\ scrollReport = NoReport
    /\ heightLog = <<>> /\ scrollsDone = 0

SpecScroll == InitScroll /\ [][ScrollStep]_vars

\* one call of bring_into_view_and_click(driver, wait, locator, attempts=n)
InitClick ==
    /\ ScrollIdle /\ StepIdle /\ FetchIdle /\ StoreIdle /\ CliIdle /\ RunIdle /\ LibIdle
    /\ cpc = "loop"
    /\ attempts \in -1..MaxClickAttempts
    /\ locator = ComboLocator
    /\ tries = 0 /\ present = FALSE /\ clickResult = NoPair /\ clickLog = <<>>

SpecClick == InitClick /\ [][ClickStep]_vars

(***************************************************************************)
(* Properties of fetch_variants (specification Spec)                       *)
(***************************************************************************)
\* the subject every non-empty ticker of the model names, and its cache paths
SubjectA == <<"A">>
PathA(v) == <<SubjectA, v>>

\* the request is well-formed: a non-empty list of overview/full, and a ticker
ValidRequest ==
    /\ variants # <<>>
    /\ \A i \in DOMAIN variants : variants[i] \in {"overview", "full"}
    /\ name_prefix # <<>>

FullRequested == \E i \in DOMAIN variants : variants[i] = "full"

\* the sample page texts that carry the not-found signal
SignalBodies == {BodyNotFoundLower, BodyNotFoundMixed}

\* the three pages of the subject
BasePages == Urls
RatingsPage == <<"/","q","/","a","n","a","l","y","s","t","s">>
HistoryPage == <<"/","q","/","e","a","r","n","i","n","g","s">>

\* C1: a `full` request whose overview, analyst and earnings documents are all
\* cached opens no session, navigates nowhere, writes nothing and returns
\* exactly the three cached locations.
C1_FullServedFromCache ==
    ( /\ ValidRequest
      /\ FullRequested
      /\ \A v \in DocVariants : cacheAtStart[PathA(v)] # Absent
      /\ pc # "start" )
    => /\ pc = "done"
       /\ outcome = "returned"
       /\ sessions = <<>>
       /\ driver = NoDriver
       /\ navLog = <<>>
       /\ writeLog = <<>>
       /\ cache = cacheAtStart
       /\ DOMAIN results = {"overview", "analyst", "earnings"}
       /\ \A v \in DOMAIN results : results[v] = PathA(v)

C1_Witness ==
    /\ variants = <<VARIANT_FULL>>
    /\ name_prefix = <<" ","A"," ">>
    /\ \A v \in DocVariants : cacheAtStart[PathA(v)] # Absent
    /\ outcome = "returned"
    /\ DOMAIN results = DocVariants
    /\ navLog = <<>>

\* C2: a captured page carrying the not-found signal is never written to the
\* cache: no write of the invocation holds the signal, no cache entry that
\* differs from the start holds it, and after a not-found capture the entry
\* of that variant is absent.
C2_NotFoundNeverCached ==
    /\ \A i \in DOMAIN writeLog : writeLog[i][2].body \notin SignalBodies
    /\ \A p \in CachePaths :
          cache[p] # cacheAtStart[p] => cache[p].body \notin SignalBodies
    /\ \A i \in DOMAIN captureLog :
          ( /\ captureLog[i][2] # Absent
            /\ captureLog[i][2].body \in SignalBodies )
          => cache[PathA(captureLog[i][1])] = Absent

C2_Witness ==
    /\ outcome = "returned"
    /\ Len(captureLog) = 3
    /\ captureLog[1][2] # Absent /\ captureLog[1][2].body = BodyNotFoundMixed
    /\ captureLog[2][2] # Absent /\ captureLog[2][2].body = BodyNotFoundLower
    /\ captureLog[3][2] # Absent /\ captureLog[3][2].body = BodyData
    /\ cache[PathA(VARIANT_OVERVIEW)] = Absent
    /\ cache[PathA(VARIANT_ANALYST)] = Absent
    /\ cache[PathA(VARIANT_EARNINGS)] # Absent

\* C3: when the invocation has returned or raised, driver.quit() has been
\* called exactly once on every session it opened.
C3_EverySessionQuitOnce ==
    outcome \in {"returned", "raised"}
    => \A sid \in DOMAIN sessions :
          Cardinality({ i \in DOMAIN quitLog : quitLog[i] = sid }) = 1

\* C4: one invocation opens at most one browsing session, and every navigation
\* of the invocation is made in that session.
C4_OneSessionForAllNavigations ==
    /\ Cardinality(DOMAIN sessions) <= 1
    /\ \A i \in DOMAIN navLog :
          /\ navLog[i][2] \in DOMAIN sessions
          /\ navLog[i][2] = navLog[1][2]

C4_Witness ==
    /\ outcome = "returned"
    /\ Len(navLog) = 3
    /\ Cardinality(DOMAIN sessions) = 1
    /\ quitLog = <<1>>

\* the required sub-documents of the request, and whether the cache held them
\* all when the invocation started
RequiredDocs ==
    IF FullRequested THEN {"overview", "analyst", "earnings"} ELSE {"overview", "analyst"}

AllRequiredCached == \A v \in RequiredDocs : cacheAtStart[PathA(v)] # Absent

\* C5: the cache short-circuit is all-or-nothing: a well-formed invocation
\* returns without opening a session exactly when every required sub-document
\* was cached; when one is missing it goes on to open a session, the first
\* navigation of the session is the base page, and without a failure of the
\* browser a session has been opened and the base page navigated, also when
\* the overview document itself was cached.
C5_ShortCircuitAllOrNothing ==
    ( ValidRequest /\ pc # "start" )
    => /\ AllRequiredCached
          => ( pc = "done" /\ outcome = "returned" /\ sessions = <<>> /\ navLog = <<>> )
       /\ pc = "done"
          => ( (outcome = "returned" /\ sessions = <<>>) <=> AllRequiredCached )
       /\ ~AllRequiredCached
          => /\ (driver # NoDriver /\ pc # "nav_base")
                => ( navLog # <<>> /\ navLog[1] = <<url, driver>> )
             /\ (pc = "done" /\ pending = None)
                => ( Cardinality(DOMAIN sessions) = 1 /\ navLog # <<>>
                     /\ navLog[1][1] = url )

C5_Witness ==
    /\ variants = <<VARIANT_FULL>>
    /\ cacheAtStart[PathA(VARIANT_OVERVIEW)] # Absent
    /\ cacheAtStart[PathA(VARIANT_ANALYST)] # Absent
    /\ cacheAtStart[PathA(VARIANT_EARNINGS)] = Absent
    /\ outcome = "returned"
    /\ Cardinality(DOMAIN sessions) = 1
    /\ Len(navLog) = 2
    /\ navLog[1][1] = url

\* the place of a page in the order base, ratings, history (0: no page of the subject)
PageRank(u) ==
    IF u \in BasePages THEN 1
    ELSE IF u = RatingsPage THEN 2
    ELSE IF u = HistoryPage THEN 3
    ELSE 0

\* C6: the navigations of an invocation are the base page, then the ratings
\* page, then the history page, each at most once; the ratings page only if
\* the analyst document is missing, the history page only if `full` is
\* requested and the earnings document is missing.
C6_NavigationOrder ==
    /\ \A i \in DOMAIN navLog : PageRank(navLog[i][1]) >= 1
    /\ navLog # <<>> => navLog[1][1] = url
    /\ \A i, j \in DOMAIN navLog :
          i < j => PageRank(navLog[i][1]) < PageRank(navLog[j][1])
    /\ \A i \in DOMAIN navLog :
          /\ navLog[i][1] = RatingsPage
                => cacheAtStart[PathA(VARIANT_ANALYST)] = Absent
          /\ navLog[i][1] = HistoryPage
                => /\ FullRequested
                   /\ cacheAtStart[PathA(VARIANT_EARNINGS)] = Absent
    /\ pc = "nav_analyst" => cache[PathA(VARIANT_ANALYST)] = Absent
    /\ pc = "nav_earnings" => ( FullRequested /\ cache[PathA(VARIANT_EARNINGS)] = Absent )

C6_Witness ==
    /\ outcome = "returned"
    /\ url = <<"/","q","/">>
    /\ Len(navLog) = 3
    /\ navLog[1][1] = url
    /\ navLog[2][1] = RatingsPage
    /\ navLog[3][1] = HistoryPage

\* the page_source reads of the ratings capture
AnalystCaptures == { i \in DOMAIN captureLog : captureLog[i][1] = VARIANT_ANALYST }

\* C7: however the duration-selector step ends (no control, click failed, an
\* exception), the ratings page is still captured, persisted as the analyst
\* document unless it carries the not-found signal, and the remaining steps
\* still run.
C7_DurationStepBestEffort ==
    ( stepOutcomes # <<>> /\ pc # "analyst_capture" )
    => /\ AnalystCaptures # {}
       /\ \A i \in AnalystCaptures :
             LET doc == captureLog[i][2] IN
             doc # Absent
             => /\ doc.page = RatingsPage
                /\ IF doc.body \in SignalBodies
                      THEN cache[PathA(VARIANT_ANALYST)] = Absent
                      ELSE \/ /\ cache[PathA(VARIANT_ANALYST)] = doc
                              /\ VARIANT_ANALYST \in DOMAIN results
                           \/ pending = "OSError"
       /\ ( /\ pc = "done"
            /\ pending = None
            /\ FullRequested
            /\ cacheAtStart[PathA(VARIANT_EARNINGS)] = Absent )
          => \E i \in DOMAIN navLog : navLog[i][1] = HistoryPage

C7_Witness ==
    /\ stepOutcomes = <<"raised">>
    /\ outcome = "returned"
    /\ cache[PathA(VARIANT_ANALYST)] # Absent
    /\ cache[PathA(VARIANT_ANALYST)].page = RatingsPage
    /\ cache[PathA(VARIANT_ANALYST)].body = BodyData
    /\ \E i \in DOMAIN navLog : navLog[i][1] = HistoryPage

(***************************************************************************)
(* Properties of bring_into_view_and_click (specification SpecClick)       *)
(***************************************************************************)
\* C8: bring_into_view_and_click never raises: whatever the driver calls do,
\* it ends by returning a pair.
C8_ClickNeverRaises ==
    /\ cpc # "raised"
    /\ cpc \notin {"loop", "lookup", "into_view", "move", "click", "js_click"}
          => Len(clickResult) = 2

\* the element lookups made so far, and the number of attempts allowed
Lookups == { i \in DOMAIN clickLog : clickLog[i][1] = "lookup" }
AllowedAttempts == IF attempts > 0 THEN attempts ELSE 0
FoundOnce == \E i \in DOMAIN clickLog : clickLog[i] = <<"lookup", "ok">>
ClickSucceededAt(i) == clickLog[i][1] \in {"click", "js_click"} /\ clickLog[i][2] = "ok"

\* C9: at most `attempts` lookups are made; the programmatic click comes only
\* right after a failed direct click; a successful click ends the call at once
\* with (true, true); a call that returns without a successful click returns
\* (present, false) after `attempts` lookups, present being true exactly when
\* some lookup found the element; clicked implies present.
C9_BoundedRetry ==
    /\ Cardinality(Lookups) <= AllowedAttempts
    /\ \A i \in DOMAIN clickLog :
          clickLog[i][1] = "js_click"
          => ( i > 1 /\ clickLog[i-1][1] = "click" /\ clickLog[i-1][2] # "ok" )
    /\ \A i \in DOMAIN clickLog :
          ClickSucceededAt(i)
          => ( i = Len(clickLog) /\ cpc = "done" /\ clickResult = <<TRUE, TRUE>> )
    /\ cpc = "done"
          => IF clickLog # <<>> /\ ClickSucceededAt(Len(clickLog))
                THEN clickResult = <<TRUE, TRUE>>
                ELSE /\ clickResult = <<FoundOnce, FALSE>>
                     /\ Cardinality(Lookups) = AllowedAttempts
    /\ (clickResult # NoPair /\ clickResult[2]) => clickResult[1]

C9_Witness ==
    /\ cpc = "done"
    /\ attempts = 2
    /\ clickResult = <<TRUE, FALSE>>
    /\ Cardinality(Lookups) = 2
    /\ clickLog[1] = <<"lookup", "ok">>
    /\ \E i \in DOMAIN clickLog : clickLog[i] = <<"js_click", "other">>
    /\ clickLog[Len(clickLog)] = <<"lookup", "stale">>

(***************************************************************************)
(* Properties of the lazy-load scroll step (specification SpecScroll)      *)
(***************************************************************************)
AllowedScrolls == IF max_attempts > 0 THEN max_attempts ELSE 0

\* C10: the scroll step makes at most max_attempts bottom-scrolls and ends;
\* no scroll follows a scroll that left the height as it was before it; the
\* reported count is the number of scrolls made.
C10_ScrollBoundedAndStable ==
    /\ scrollsDone <= AllowedScrolls
    /\ Len(heightLog) <= scrollsDone + 1
    /\ spc # "done" => ENABLED ScrollStep
    /\ \A i \in 2..Len(heightLog) :
          heightLog[i] = heightLog[i-1]
          => ( i = Len(heightLog) /\ scrollsDone = i - 1 /\ spc \in {"return", "done"} )
    /\ (scrollReport # NoReport /\ scrollReport.present)
          => scrollReport.scrolled = scrollsDone

C10_Witness ==
    /\ spc = "done"
    /\ max_attempts = 4
    /\ scrollReport # NoReport
    /\ scrollReport.present
    /\ scrollReport.scrolled = 2
    /\ scrollsDone = 2
    /\ heightLog = <<0, 2, 2>>

(***************************************************************************)
(* The reconciliation store: services/db/db.py and services/db/crud.py     *)
(*                                                                         *)
(* A number is held in thousandths (1.234 is 1234), so that float(), and   *)
(* the rounding of a DECIMAL(.., 2) column, are computed.  A record has    *)
(* two of the mutable columns, quarter and rev_est: the statement treats   *)
(* the eleven alike, and the ten nullable ones have rev_est's or a text    *)
(* type.  The date of a csv row is its three numbers and their separator.  *)
(***************************************************************************)
DigitValue(c) ==
    CASE c = "0" -> 0 [] c = "1" -> 1 [] c = "2" -> 2 [] c = "3" -> 3 [] c = "4" -> 4
      [] c = "5" -> 5 [] c = "6" -> 6 [] c = "7" -> 7 [] c = "8" -> 8 [] c = "9" -> 9
      [] OTHER -> -1

\* the number a text of digits writes, -1 for any other text
RECURSIVE DigitsValue(_)
DigitsValue(s) ==
    IF s = <<>> THEN -1
    ELSE LET d == DigitValue(s[Len(s)])
             r == DigitsValue(SubSeq(s, 1, Len(s) - 1))
         IN  IF d < 0 THEN -1
             ELSE IF Len(s) = 1 THEN d
             ELSE IF r < 0 THEN -1 ELSE 10 * r + d

\* int(settings.port): the number, -1 when int() raises
PortInt(p) ==
    IF "int" \in DOMAIN p THEN p.int
    ELSE IF "str" \in DOMAIN p THEN DigitsValue(Strip(p.str))
    ELSE -1

SettingNames == {"port", "host", "user", "password", "database", "table"}

\* the list problems of _validate_db_settings
Problems(st) ==
    { n \in SettingNames :
        CASE n = "port" -> PortInt(st.port) < 0
          [] n = "password" -> st.password = Null
          [] OTHER -> Strip(st[n]) = <<>> }

\* settings after _validate_db_settings: settings.port = int(settings.port)
Validated(st) ==
    IF PortInt(st.port) < 0 THEN st ELSE [st EXCEPT !.port = [int |-> PortInt(st.port)]]

\* s.replace(",", "")
RemoveCommas(s) == SelectSeq(s, LAMBDA c : c # ",")

\* float(s) in thousandths, -1 for ValueError (texts of at most three decimals)
PyFloat(s) ==
    LET dots == { i \in 1..Len(s) : s[i] = "." }
        i  == CHOOSE k \in dots : TRUE
        ip == SubSeq(s, 1, i - 1)
        fp == SubSeq(s, i + 1, Len(s))
        n  == IF ip = <<>> THEN 0 ELSE DigitsValue(ip)
        f  == IF fp = <<>> THEN 0 ELSE DigitsValue(fp)
        scale == CASE Len(fp) = 1 -> 100 [] Len(fp) = 2 -> 10 [] OTHER -> 1
    IN  IF dots = {} THEN (IF DigitsValue(s) < 0 THEN -1 ELSE 1000 * DigitsValue(s))
        ELSE IF Cardinality(dots) > 1 \/ Len(s) = 1 \/ Len(fp) > 3 \/ n < 0 \/ f < 0 THEN -1
        ELSE 1000 * n + scale * f

\* _to_float of a csv cell
ToFloat(val) ==
    LET t == Strip(val)
        x == PyFloat(RemoveCommas(t))
    IN  IF t = <<>> \/ x < 0 THEN Null ELSE Some(x)

DaysIn(y, m) ==
    IF m \in {4, 6, 9, 11} THEN 30
    ELSE IF m # 2 THEN 31
    ELSE IF y % 4 = 0 /\ (y % 100 # 0 \/ y % 400 = 0) THEN 29 ELSE 28

\* datetime.strptime(s, fmt).date(), Null for ValueError
Strptime(s, fmt) ==
    LET sep == IF fmt = "%Y-%m-%d" THEN "-" ELSE "/"
        y == IF fmt = "%Y-%m-%d" THEN s.a ELSE s.c
        m == IF fmt = "%m/%d/%Y" THEN s.a ELSE s.b
        d == CASE fmt = "%m/%d/%Y" -> s.b [] fmt = "%d/%m/%Y" -> s.a [] OTHER -> s.c
    IN  IF /\ "sep" \in DOMAIN s
           /\ s.sep = sep
           /\ y \in 1..9999 /\ m \in 1..12 /\ d \in 1..DaysIn(y, m)
        THEN Some([y |-> y, m |-> m, d |-> d])
        ELSE Null

\* _to_date: the first format that parses, Null for the ValueError of line 44
ToDate(val) ==
    IF Strptime(val, "%m/%d/%Y") # Null THEN Strptime(val, "%m/%d/%Y")
    ELSE IF Strptime(val, "%d/%m/%Y") # Null THEN Strptime(val, "%d/%m/%Y")
    ELSE Strptime(val, "%Y-%m-%d")

\* ticker = (row.get("ticker") or default_ticker or "").strip()
RowTicker(row, dt) == Strip(IF row.ticker # <<>> THEN row.ticker ELSE dt)

\* the Earnings of lines 52-67 (the date parses)
ToEarnings(row, dt) ==
    [ticker |-> RowTicker(row, dt),
     quarter |-> IF row.quarter = <<>> THEN Null ELSE Some(row.quarter),
     report_date |-> ToDate(row.date).v,
     rev_est |-> ToFloat(row.rev_est)]

\* next(rows) of the generator _iter_csv_dict_to_earnings, p rows consumed so far:
\* rows without a ticker are passed over; "yield", "raise" (_to_date) or "stop"
RECURSIVE NextItem(_, _, _)
NextItem(rs, p, dt) ==
    IF p >= Len(rs) THEN [kind |-> "stop", pos |-> p]
    ELSE IF RowTicker(rs[p + 1], dt) = <<>> THEN NextItem(rs, p + 1, dt)
    ELSE IF ToDate(rs[p + 1].date) = Null THEN [kind |-> "raise", pos |-> p + 1]
    ELSE [kind |-> "yield", pos |-> p + 1, e |-> ToEarnings(rs[p + 1], dt)]

\* the reconciliation key: UNIQUE KEY uq_ticker_date (ticker, report_date)
Key(r) == <<r.ticker, r.report_date>>

\* a value as a DECIMAL(.., 2) column holds it: rounded to hundredths
Decimal2(x) == IF x = Null THEN Null ELSE Some(((x.v + 5) \div 10) * 10)

\* quarter VARCHAR(10) NOT NULL: the statement fails for a NULL quarter
StatementFails(e) == e.quarter = Null

\* the statement without the unique key: every execution adds a row
UpsertNoUniqueKey(rs, e, id, ts) ==
    [rows |-> rs \cup {[id |-> id, ticker |-> e.ticker, report_date |-> e.report_date,
                        quarter |-> e.quarter.v, rev_est |-> Decimal2(e.rev_est),
                        created_at |-> ts]},
     rowcount |-> 1, lastrowid |-> id]

\* the statement as REPLACE INTO: the old row is deleted, a new one inserted
UpsertReplaces(rs, e, id, ts) ==
    LET old == { r \in rs : Key(r) = Key(e) }
    IN  [rows |-> (rs \ old) \cup {[id |-> id, ticker |-> e.ticker,
                        report_date |-> e.report_date, quarter |-> e.quarter.v,
                        rev_est |-> Decimal2(e.rev_est), created_at |-> ts]},
         rowcount |-> IF old = {} THEN 1 ELSE 2, lastrowid |-> id]

\* the statement counting matched rows: a conflict without a change counts 1
UpsertCountsMatched(rs, e, id, ts) ==
    LET old == { r \in rs : Key(r) = Key(e) }
        o   == CHOOSE r \in old : TRUE
        upd == [o EXCEPT !.quarter = e.quarter.v, !.rev_est = Decimal2(e.rev_est)]
    IN  IF old = {}
        THEN UpsertNoUniqueKey(rs, e, id, ts)
        ELSE [rows |-> (rs \ {o}) \cup {upd},
              rowcount |-> IF upd = o THEN 1 ELSE 2, lastrowid |-> o.id]

\* INSERT INTO ... ON DUPLICATE KEY UPDATE ... on the rows rs, with the next
\* AUTO_INCREMENT value id at time ts: the rows after it, cur.rowcount, cur.lastrowid
Upsert(rs, e, id, ts) ==
    LET old == { r \in rs : Key(r) = Key(e) }
        o   == CHOOSE r \in old : TRUE
        upd == [o EXCEPT !.quarter = e.quarter.v, !.rev_est = Decimal2(e.rev_est)]
    IN  IF old = {}
        THEN [rows |-> rs \cup {[id |-> id, ticker |-> e.ticker,
                                 report_date |-> e.report_date, quarter |-> e.quarter.v,
                                 rev_est |-> Decimal2(e.rev_est), created_at |-> ts]},
              rowcount |-> 1, lastrowid |-> id]
        ELSE [rows |-> (rs \ {o}) \cup {upd},
              rowcount |-> IF upd = o THEN 0 ELSE 2, lastrowid |-> o.id]

\* the classification with the counts of `updated` and `unchanged` exchanged
ActionOfExchanged(rowcount) ==
    IF rowcount = 1 THEN "inserted" ELSE IF rowcount = 2 THEN "unchanged" ELSE "updated"

\* rowcount semantics: 1=inserted, 2=updated, 0=unchanged
ActionOf(rowcount) ==
    IF rowcount = 1 THEN "inserted" ELSE IF rowcount = 2 THEN "updated" ELSE "unchanged"

\* the counters with an unchanged record not counted as attempted
CountedUnlessUnchanged(st, rowcount) ==
    [st EXCEPT ![ActionOf(rowcount)] = @ + 1,
               !.attempted = IF rowcount = 0 THEN @ ELSE @ + 1]

\* stats[action] += 1; stats["attempted"] += 1
Counted(st, rowcount) ==
    [st EXCEPT ![ActionOf(rowcount)] = @ + 1, !.attempted = @ + 1]

\* the commit test one row late
BatchFullLate(b, ce) == b > ce

\* if batch >= commit_every
BatchFull(b, ce) == b >= ce

\* closing a connection that commits what is pending
AfterCloseCommits(p, v) == v

\* conn.close(): the rows that stay persisted, of persisted p and the view v of
\* the connection; what was not committed is rolled back
AfterClose(p, v) == p

\* ---- inputs ----
TickerA == <<"A">>
TickerM == <<"M">>
Day1 == [y |-> 2025, m |-> 1, d |-> 2]

\* the Earnings handed to upsert_earnings_row
Records ==
    { [ticker |-> t, quarter |-> Some(<<"Q">>), report_date |-> Day1, rev_est |-> Some(x)] :
        t \in {TickerA, TickerM}, x \in {1230, 1234, 1240} }
      \cup { [ticker |-> TickerA, quarter |-> Null, report_date |-> Day1, rev_est |-> Null] }

\* the rows csv.DictReader yields: a row without a ticker column value, the same
\* with another estimate, a row of another subject with the date written
\* year first, a row with an unparsed date, a row without a quarter
CsvRows ==
    { [ticker |-> <<>>, quarter |-> <<"Q">>, date |-> [sep |-> "/", a |-> 1, b |-> 2, c |-> 2025],
       rev_est |-> <<"1", ".", "2", "3">>],
      [ticker |-> <<>>, quarter |-> <<"Q">>, date |-> [sep |-> "/", a |-> 1, b |-> 2, c |-> 2025],
       rev_est |-> <<"1", ".", "2", "4">>],
      [ticker |-> <<" ", "M">>, quarter |-> <<"Q">>, date |-> [sep |-> "-", a |-> 2025, b |-> 1, c |-> 2],
       rev_est |-> <<"1", ",", "0", "0", "0">>],
      [ticker |-> <<>>, quarter |-> <<"Q">>, date |-> [raw |-> <<"T", "B", "D">>],
       rev_est |-> <<>>],
      [ticker |-> <<>>, quarter |-> <<>>, date |-> [sep |-> "/", a |-> 1, b |-> 2, c |-> 2025],
       rev_est |-> <<>>] }

RowLists == UNION { [1..n -> CsvRows] : n \in 0..MaxRows }

CommitEveryValues == (1..MaxCommitEvery) \cup {DefaultCommitEvery}

\* settings as assignments can leave them: as loaded, the port as text of an
\* integer with an empty password, and one field at a time made invalid
Configs ==
    { DefaultSettings,
      [DefaultSettings EXCEPT !.port = [str |-> <<" ", "7">>], !.password = Some(<<>>)],
      [DefaultSettings EXCEPT !.port = [str |-> <<"x">>]],
      [DefaultSettings EXCEPT !.port = Null],
      [DefaultSettings EXCEPT !.host = <<" ">>],
      [DefaultSettings EXCEPT !.user = <<>>],
      [DefaultSettings EXCEPT !.password = Null],
      [DefaultSettings EXCEPT !.database = <<>>],
      [DefaultSettings EXCEPT !.table = <<" ">>] }

\* outcomes of a call into the driver or the file system
IoOutcomes == {"ok", "error"}

\* ---- operations ----
\* a call of an operation of the store: parameters bound, locals and the
\* histories of the call before it dropped
StoreCall(first, c, e, rs, dt, ce) ==
    /\ dpc = "idle"
    /\ dpc' = first /\ op' = c /\ earn' = e /\ rows' = rs
    /\ default_ticker' = dt /\ commit_every' = ce
    /\ pos' = 0 /\ batch' = 0 /\ stats' = ZeroStats /\ cur' = Null /\ dbResult' = Null
    /\ dbOutcome' = "running" /\ conn' = "none" /\ connects' = 0 /\ view' = {}
    /\ executed' = <<>> /\ committed' = 0 /\ startRows' = persisted /\ startId' = next_id
    /\ UNCHANGED <<settings, schema, persisted, next_id, prev>>

\* an exception leaves the operation; the connection, if open, is not closed
StoreRaise(what) ==
    /\ dpc' = "done" /\ dbOutcome' = what

ConnectPcs == {"database_connect", "tables_connect", "upsert_connect", "load_connect"}

AfterConnect(p) ==
    CASE p = "database_connect" -> "database_create"
      [] p = "tables_connect" -> "tables_create"
      [] p = "upsert_connect" -> "upsert_execute"
      [] OTHER -> "load_row"

\* connect_db with the connection attempted before the settings are validated
ConnectUnvalidated ==
    /\ dpc \in ConnectPcs
    /\ settings' = Validated(settings)
    /\ connects' = connects + 1
    /\ \E o \in IoOutcomes :
         IF Problems(settings) # {} THEN StoreRaise("config_error") /\ UNCHANGED <<conn, view>>
         ELSE IF o = "ok" /\ (dpc = "database_connect" \/ schema # "none")
         THEN /\ conn' = "open" /\ view' = persisted
              /\ dpc' = AfterConnect(dpc)
              /\ UNCHANGED dbOutcome
         ELSE StoreRaise("connect_error") /\ UNCHANGED <<conn, view>>
    /\ UNCHANGED <<schema, persisted, next_id, now, op, earn, rows, default_ticker, commit_every,
                   pos, batch, stats, cur, dbResult, executed, committed, startRows, startId, prev>>
    /\ UNCHANGED <<scrollVars, clickVars, stepVars, fetchVars, cliVars, runVars, libVars>>

\* connect_server (before CREATE DATABASE) and connect_db (every other operation):
\* _validate_db_settings, then mysql.connector.connect; connect_db names the
\* database, which has to exist
Connect ==
    /\ dpc \in ConnectPcs
    /\ settings' = Validated(settings)
    /\ IF Problems(settings) # {}
       THEN StoreRaise("config_error") /\ UNCHANGED <<conn, view, connects>>
       ELSE /\ connects' = connects + 1
            /\ \E o \in IoOutcomes :
                 IF o = "ok" /\ (dpc = "database_connect" \/ schema # "none")
                 THEN /\ conn' = "open" /\ view' = persisted
                      /\ dpc' = AfterConnect(dpc)
                      /\ UNCHANGED dbOutcome
                 ELSE StoreRaise("connect_error") /\ UNCHANGED <<conn, view>>
    /\ UNCHANGED <<schema, persisted, next_id, now, op, earn, rows, default_ticker, commit_every,
                   pos, batch, stats, cur, dbResult, executed, committed, startRows, startId, prev>>
    /\ UNCHANGED <<scrollVars, clickVars, stepVars, fetchVars, cliVars, runVars, libVars>>

\* create_database / create_tables_if_not_exists after the connection: execute,
\* commit, close; inside _direct_parse_earnings_to_db the next call follows
CreateSchema ==
    /\ dpc \in {"database_create", "tables_create"}
    /\ \E o \in IoOutcomes :
         IF o = "ok"
         THEN /\ schema' = IF dpc = "tables_create" THEN "table"
                           ELSE IF schema = "none" THEN "database" ELSE schema
              /\ conn' = "closed" /\ view' = {}
              /\ IF op = "direct"
                 THEN /\ dpc' = IF dpc = "database_create" THEN "tables_connect"
                                ELSE "direct_html"
                      /\ UNCHANGED dbOutcome
                 ELSE /\ dpc' = "done" /\ dbOutcome' = "returned"
         ELSE StoreRaise("db_error") /\ UNCHANGED <<schema, conn, view>>
    /\ UNCHANGED <<settings, persisted, connects, next_id, now, op, earn, rows, default_ticker,
                   commit_every, pos, batch, stats, cur, dbResult, executed, committed,
                   startRows, startId, prev>>
    /\ UNCHANGED <<scrollVars, clickVars, stepVars, fetchVars, cliVars, runVars, libVars>>

\* cur.execute(sql, params) on the open connection: the view, the counter and the
\* cursor after it
Executes(e) ==
    LET r == Upsert(view, e, next_id, now)
    IN  /\ view' = r.rows
        /\ cur' = [rowcount |-> r.rowcount, lastrowid |-> r.lastrowid]
        /\ next_id' = IF r.rowcount = 1 THEN next_id + 1 ELSE next_id
        /\ executed' = Append(executed, [e |-> e, rowcount |-> r.rowcount])

\* upsert_earnings_row, line 100
UpsertExecute ==
    /\ dpc = "upsert_execute"
    /\ \E o \in IoOutcomes :
         IF o = "ok" /\ schema = "table" /\ ~StatementFails(earn)
         THEN /\ Executes(earn)
              /\ dpc' = "upsert_commit"
              /\ UNCHANGED dbOutcome
         ELSE StoreRaise("db_error") /\ UNCHANGED <<view, cur, next_id, executed>>
    /\ UNCHANGED <<settings, schema, persisted, conn, connects, now, op, earn, rows,
                   default_ticker, commit_every, pos, batch, stats, dbResult, committed,
                   startRows, startId, prev>>
    /\ UNCHANGED <<scrollVars, clickVars, stepVars, fetchVars, cliVars, runVars, libVars>>

\* upsert_earnings_row, lines 101-113: commit, classify, close, return
UpsertCommit ==
    /\ dpc = "upsert_commit"
    /\ \E o \in IoOutcomes :
         IF o = "ok"
         THEN /\ persisted' = view
              /\ committed' = Len(executed)
              /\ dbResult' = [id |-> cur.lastrowid, action |-> ActionOf(cur.rowcount)]
              /\ conn' = "closed" /\ view' = {}
              /\ dpc' = "done" /\ dbOutcome' = "returned"
         ELSE StoreRaise("db_error") /\ UNCHANGED <<persisted, committed, dbResult, conn, view>>
    /\ UNCHANGED <<settings, schema, connects, next_id, now, op, earn, rows, default_ticker,
                   commit_every, pos, batch, stats, cur, executed, startRows, startId, prev>>
    /\ UNCHANGED <<scrollVars, clickVars, stepVars, fetchVars, cliVars, runVars, libVars>>

\* load_earnings_rows, lines 174-189: one turn of `for e in rows` up to batch += 1;
\* the generator may raise (_to_date), the statement may fail
LoadRow ==
    /\ dpc = "load_row"
    /\ LET it == NextItem(rows, pos, default_ticker)
       IN  /\ pos' = it.pos
           /\ CASE it.kind = "stop" ->
                     /\ dpc' = "load_final"
                     /\ UNCHANGED <<dbOutcome, view, cur, next_id, executed, stats, batch>>
                [] it.kind = "raise" ->
                     /\ dpc' = "load_finally" /\ dbOutcome' = "date_error"
                     /\ UNCHANGED <<view, cur, next_id, executed, stats, batch>>
                [] OTHER ->
                     \E o \in IoOutcomes :
                        IF o = "ok" /\ schema = "table" /\ ~StatementFails(it.e)
                        THEN /\ Executes(it.e)
                             /\ stats' = Counted(stats, cur'.rowcount)
                             /\ batch' = batch + 1
                             /\ dpc' = "load_commit"
                             /\ UNCHANGED dbOutcome
                        ELSE /\ dpc' = "load_finally" /\ dbOutcome' = "db_error"
                             /\ UNCHANGED <<view, cur, next_id, executed, stats, batch>>
    /\ UNCHANGED <<settings, schema, persisted, conn, connects, now, op, earn, rows,
                   default_ticker, commit_every, dbResult, committed, startRows, startId, prev>>
    /\ UNCHANGED <<scrollVars, clickVars, stepVars, fetchVars, cliVars, runVars, libVars>>

\* load_earnings_rows, lines 190-192
LoadCommit ==
    /\ dpc = "load_commit"
    /\ IF BatchFull(batch, commit_every)
       THEN \E o \in IoOutcomes :
               IF o = "ok"
               THEN /\ persisted' = view /\ committed' = Len(executed) /\ batch' = 0
                    /\ dpc' = "load_row" /\ UNCHANGED dbOutcome
               ELSE /\ dpc' = "load_finally" /\ dbOutcome' = "db_error"
                    /\ UNCHANGED <<persisted, committed, batch>>
       ELSE dpc' = "load_row" /\ UNCHANGED <<persisted, committed, batch, dbOutcome>>
    /\ UNCHANGED <<settings, schema, view, conn, connects, next_id, now, op, earn, rows,
                   default_ticker, commit_every, pos, stats, cur, dbResult, executed,
                   startRows, startId, prev>>
    /\ UNCHANGED <<scrollVars, clickVars, stepVars, fetchVars, cliVars, runVars, libVars>>

\* load_earnings_rows, lines 194-195: the commit of the remainder
LoadFinal ==
    /\ dpc = "load_final"
    /\ IF batch # 0
       THEN \E o \in IoOutcomes :
               IF o = "ok"
               THEN /\ persisted' = view /\ committed' = Len(executed)
                    /\ UNCHANGED dbOutcome
               ELSE dbOutcome' = "db_error" /\ UNCHANGED <<persisted, committed>>
       ELSE UNCHANGED <<persisted, committed, dbOutcome>>
    /\ dpc' = "load_finally"
    /\ UNCHANGED <<settings, schema, view, conn, connects, next_id, now, op, earn, rows,
                   default_ticker, commit_every, pos, batch, stats, cur, dbResult, executed,
                   startRows, startId, prev>>
    /\ UNCHANGED <<scrollVars, clickVars, stepVars, fetchVars, cliVars, runVars, libVars>>

\* load_earnings_rows, lines 196-200: finally cur.close(); conn.close(), then
\* return stats or the exception goes on
LoadFinally ==
    /\ dpc = "load_finally"
    /\ persisted' = AfterClose(persisted, view)
    /\ conn' = "closed" /\ view' = {}
    /\ dpc' = "done"
    /\ IF dbOutcome = "running"
       THEN dbOutcome' = "returned" /\ dbResult' = stats
       ELSE UNCHANGED <<dbOutcome, dbResult>>
    /\ UNCHANGED <<settings, schema, connects, next_id, now, op, earn, rows, default_ticker,
                   commit_every, pos, batch, stats, cur, executed, committed, startRows,
                   startId, prev>>
    /\ UNCHANGED <<scrollVars, clickVars, stepVars, fetchVars, cliVars, runVars, libVars>>

\* _direct_parse_earnings_to_db, line 123
DirectValidate ==
    /\ dpc = "direct_validate"
    /\ settings' = Validated(settings)
    /\ IF Problems(settings) # {}
       THEN StoreRaise("config_error")
       ELSE dpc' = "database_connect" /\ UNCHANGED dbOutcome
    /\ UNCHANGED <<schema, persisted, view, conn, connects, next_id, now, op, earn, rows,
                   default_ticker, commit_every, pos, batch, stats, cur, dbResult, executed,
                   committed, startRows, startId, prev>>
    /\ UNCHANGED <<scrollVars, clickVars, stepVars, fetchVars, cliVars, runVars, libVars>>

\* _direct_parse_earnings_to_db, lines 127-163: the earnings document has to
\* exist; parse_earnings_rows is not in the controller, so the import raises
\* and the csv text of export_earnings_to_csv goes to load_csv_text_earnings
DirectLoad ==
    /\ dpc = "direct_html"
    /\ \E o \in IoOutcomes :
         IF o = "ok"
         THEN dpc' = "load_connect" /\ UNCHANGED dbOutcome
         ELSE StoreRaise("file_error")
    /\ UNCHANGED <<settings, schema, persisted, view, conn, connects, next_id, now, op, earn,
                   rows, default_ticker, commit_every, pos, batch, stats, cur, dbResult,
                   executed, committed, startRows, startId, prev>>
    /\ UNCHANGED <<scrollVars, clickVars, stepVars, fetchVars, cliVars, runVars, libVars>>

\* the operation's frame is left: its locals and its connection object are gone
StoreDone ==
    /\ dpc = "done"
    /\ prev' = IF op = "upsert" /\ dbOutcome = "returned" THEN earn ELSE Null
    /\ dpc' = "idle" /\ op' = "none" /\ earn' = Null /\ rows' = <<>>
    /\ default_ticker' = <<>> /\ commit_every' = 0
    /\ pos' = 0 /\ batch' = 0 /\ stats' = ZeroStats /\ cur' = Null /\ dbResult' = Null
    /\ dbOutcome' = "idle" /\ conn' = "none" /\ connects' = 0 /\ view' = {}
    /\ executed' = <<>> /\ committed' = 0 /\ startRows' = {} /\ startId' = 1
    /\ UNCHANGED <<settings, schema, persisted, next_id, now>>
    /\ UNCHANGED <<scrollVars, clickVars, stepVars, fetchVars, cliVars, runVars, libVars>>

\* the callers of the store
StoreStart ==
    /\ \/ StoreCall("database_connect", "create_database", Null, <<>>, <<>>, 0) /\ UNCHANGED now
       \/ StoreCall("tables_connect", "create_tables", Null, <<>>, <<>>, 0) /\ UNCHANGED now
       \/ /\ now < MaxOps /\ now' = now + 1
          /\ \/ \E e \in Records : StoreCall("upsert_connect", "upsert", e, <<>>, <<>>, 0)
             \/ \E rs \in RowLists, dt \in {<<>>, TickerA}, ce \in CommitEveryValues :
                   StoreCall("load_connect", "load", Null, rs, dt, ce)
             \/ \E rs \in RowLists :
                   StoreCall("direct_validate", "direct", Null, rs, TickerA, DefaultCommitEvery)
    /\ UNCHANGED <<scrollVars, clickVars, stepVars, fetchVars, cliVars, runVars, libVars>>

StoreStep ==
    \/ StoreStart
    \/ Connect
    \/ CreateSchema
    \/ UpsertExecute
    \/ UpsertCommit
    \/ LoadRow
    \/ LoadCommit
    \/ LoadFinal
    \/ LoadFinally
    \/ DirectValidate
    \/ DirectLoad
    \/ StoreDone

\* a server without the database, and any of the configurations
InitStore ==
    /\ ScrollIdle /\ ClickIdle /\ StepIdle /\ FetchIdle /\ CliIdle /\ RunIdle /\ LibIdle
    /\ settings \in Configs
    /\ schema = "none" /\ persisted = {} /\ view = {}
    /\ conn = "none" /\ connects = 0 /\ next_id = 1 /\ now = 0
    /\ dpc = "idle" /\ op = "none" /\ earn = Null /\ rows = <<>>
    /\ default_ticker = <<>> /\ commit_every = 0 /\ pos = 0 /\ batch = 0
    /\ stats = ZeroStats /\ cur = Null /\ dbResult = Null /\ dbOutcome = "idle"
    /\ executed = <<>> /\ committed = 0 /\ startRows = {} /\ startId = 1
    /\ prev = Null

SpecStore == InitStore /\ [][StoreStep]_vars

(***************************************************************************)
(* The command line and one subject's run: app/cli.py, app/run_pipeline.py *)
(*                                                                         *)
(* fetch_variants and the three sinks are calls with an outcome here; what *)
(* they do is modelled by Spec and SpecStore.                              *)
(***************************************************************************)
\* s.split(sep)
RECURSIVE Split(_, _)
Split(s, sep) ==
    LET at == { i \in 1..Len(s) : s[i] = sep }
        i  == CHOOSE k \in at : \A m \in at : k <= m
    IN  IF at = {} THEN <<s>>
        ELSE <<SubSeq(s, 1, i - 1)>> \o Split(SubSeq(s, i + 1, Len(s)), sep)

\* tickers = [t.strip() for t in args.ticker.split(",") if t.strip()]
ParseTickers(text) ==
    LET parts == Split(text, ",")
    IN  SelectSeq([i \in 1..Len(parts) |-> Strip(parts[i])], LAMBDA t : t # <<>>)

\* --ticker values
TickerArgs ==
    { <<>>, <<",", " ">>, <<"M">>, <<"a", ",", "B">>, <<" ", "A", " ", ",", ",", "B">>,
      <<"A", ",", "B", ",", "M">> }

\* what parse_args returns
ArgValues ==
    [ticker : TickerArgs, variant : {VARIANT_OVERVIEW, VARIANT_FULL},
     sink : {"db", "csv", "both"}, parse_json : BOOLEAN]

\* the keys of the dict fetch_variants returns for variants=[variant]
FetchResults(variant) ==
    IF variant = VARIANT_FULL
    THEN { {VARIANT_OVERVIEW, VARIANT_ANALYST, VARIANT_EARNINGS} }
    ELSE SUBSET {VARIANT_OVERVIEW, VARIANT_ANALYST}

\* run_for_ticker(t, ...), line 195
RunCall(t) ==
    /\ rpc' = "fetch" /\ run_ticker' = Upper(Strip(t)) /\ run_results' = {}
    /\ sinkLog' = <<>> /\ runOutcome' = "running"

RunReset ==
    /\ rpc' = "idle" /\ run_ticker' = <<>> /\ run_results' = {} /\ sinkLog' = <<>>
    /\ runOutcome' = "idle"

\* run_for_ticker, lines 197-218: fetch_variants returns its dict or raises
\* (the `full` key is never in it, so lines 215-218 add nothing)
RunFetch ==
    /\ rpc = "fetch"
    /\ \/ /\ \E keys \in FetchResults(args.variant) :
               run_results' = IF VARIANT_FULL \in keys
                              THEN keys \cup {VARIANT_OVERVIEW, VARIANT_ANALYST, VARIANT_EARNINGS}
                              ELSE keys
          /\ rpc' = "json" /\ UNCHANGED runOutcome
       \/ /\ rpc' = "done" /\ runOutcome' = "raised" /\ UNCHANGED run_results
    /\ UNCHANGED <<run_ticker, sinkLog>>
    /\ UNCHANGED <<scrollVars, clickVars, stepVars, fetchVars, storeVars, cliVars, libVars>>

\* one sink of run_for_ticker: when it is requested and applicable it is tried,
\* its key is set if it completes, an exception is logged and dropped
Sink(key, wanted, next) ==
    /\ IF wanted
       THEN \E o \in IoOutcomes :
               IF o = "ok"
               THEN /\ run_results' = run_results \cup {key}
                    /\ sinkLog' = Append(sinkLog, <<key, "ok">>)
               ELSE /\ sinkLog' = Append(sinkLog, <<key, "raised">>)
                    /\ UNCHANGED run_results
       ELSE UNCHANGED <<run_results, sinkLog>>
    /\ rpc' = next
    /\ UNCHANGED <<run_ticker, runOutcome>>
    /\ UNCHANGED <<scrollVars, clickVars, stepVars, fetchVars, storeVars, cliVars, libVars>>

\* the JSON export with its exception let through
RunJsonPropagates ==
    /\ rpc = "json"
    /\ IF args.parse_json /\ VARIANT_OVERVIEW \in run_results
       THEN \E o \in IoOutcomes :
               IF o = "ok"
               THEN /\ run_results' = run_results \cup {"json"}
                    /\ sinkLog' = Append(sinkLog, <<"json", "ok">>)
                    /\ rpc' = "db" /\ UNCHANGED runOutcome
               ELSE /\ sinkLog' = Append(sinkLog, <<"json", "raised">>)
                    /\ rpc' = "done" /\ runOutcome' = "raised"
                    /\ UNCHANGED run_results
       ELSE rpc' = "db" /\ UNCHANGED <<run_results, sinkLog, runOutcome>>
    /\ UNCHANGED run_ticker
    /\ UNCHANGED <<scrollVars, clickVars, stepVars, fetchVars, storeVars, cliVars, libVars>>

\* run_for_ticker, lines 221-226
RunJson ==
    /\ rpc = "json"
    /\ Sink("json", args.parse_json /\ VARIANT_OVERVIEW \in run_results, "db")

\* run_for_ticker, lines 229-238
RunDb ==
    /\ rpc = "db"
    /\ Sink("db", VARIANT_EARNINGS \in run_results /\ args.sink \in {"db", "both"}, "csv")

\* run_for_ticker, lines 240-245
RunCsv ==
    /\ rpc = "csv"
    /\ Sink("csv", VARIANT_EARNINGS \in run_results /\ args.sink \in {"csv", "both"}, "return")

\* run_for_ticker, lines 247-250
RunReturn ==
    /\ rpc = "return"
    /\ rpc' = "done" /\ runOutcome' = "returned"
    /\ UNCHANGED <<run_ticker, run_results, sinkLog>>
    /\ UNCHANGED <<scrollVars, clickVars, stepVars, fetchVars, storeVars, cliVars, libVars>>

RunStep == RunFetch \/ RunJson \/ RunDb \/ RunCsv \/ RunReturn

\* main, lines 87-95
CliStart ==
    /\ kpc = "start"
    /\ tickers' = ParseTickers(args.ticker)
    /\ IF tickers' = <<>>
       THEN kpc' = "done" /\ exitStatus' = "no_tickers"
       ELSE IF args.sink \in {"csv", "both"} \/ args.parse_json
       THEN \E o \in IoOutcomes :
               IF o = "ok" THEN kpc' = "loop" /\ UNCHANGED exitStatus
               ELSE kpc' = "done" /\ exitStatus' = "mkdir_error"
       ELSE kpc' = "loop" /\ UNCHANGED exitStatus
    /\ UNCHANGED <<args, ti, failures, attemptLog>>
    /\ UNCHANGED <<scrollVars, clickVars, stepVars, fetchVars, storeVars, runVars, libVars>>

\* main, lines 96-105 and 114-115: the next subject's run is called, or the
\* loop is over and the failures decide the exit
CliLoop ==
    /\ kpc = "loop"
    /\ IF ti < Len(tickers)
       THEN /\ ti' = ti + 1
            /\ RunCall(tickers[ti + 1])
            /\ kpc' = "in_run"
            /\ UNCHANGED exitStatus
       ELSE /\ kpc' = "done"
            /\ exitStatus' = IF failures # {} THEN "failures" ELSE "ok"
            /\ UNCHANGED <<ti, runVars>>
    /\ UNCHANGED <<args, tickers, failures, attemptLog>>
    /\ UNCHANGED <<scrollVars, clickVars, stepVars, fetchVars, storeVars, libVars>>

\* failures[t] = str(e)
Recorded(fs, t) == { f \in fs : f.ticker # t } \cup {[ticker |-> t, message |-> "error"]}

\* main with the exception of a subject's run let through
CliAfterRunAborts ==
    /\ kpc = "in_run" /\ rpc = "done"
    /\ attemptLog' = Append(attemptLog, <<tickers[ti], runOutcome>>)
    /\ IF runOutcome = "returned"
       THEN kpc' = "loop" /\ UNCHANGED <<failures, exitStatus>>
       ELSE kpc' = "done" /\ exitStatus' = "failures" /\ failures' = Recorded(failures, tickers[ti])
    /\ RunReset
    /\ UNCHANGED <<args, tickers, ti>>
    /\ UNCHANGED <<scrollVars, clickVars, stepVars, fetchVars, storeVars, libVars>>

\* main, lines 106-112: the run returned (the [OK] line) or raised (the failure
\* is recorded); the loop goes on either way
CliAfterRun ==
    /\ kpc = "in_run" /\ rpc = "done"
    /\ attemptLog' = Append(attemptLog, <<tickers[ti], runOutcome>>)
    /\ failures' = IF runOutcome = "returned" THEN failures
                   ELSE Recorded(failures, tickers[ti])
    /\ kpc' = "loop"
    /\ RunReset
    /\ UNCHANGED <<args, tickers, ti, exitStatus>>
    /\ UNCHANGED <<scrollVars, clickVars, stepVars, fetchVars, storeVars, libVars>>

CliStep == CliStart \/ CliLoop \/ CliAfterRun

NextCli == CliStep \/ RunStep

\* one invocation of main
InitCli ==
    /\ ScrollIdle /\ ClickIdle /\ StepIdle /\ FetchIdle /\ StoreIdle /\ RunIdle /\ LibIdle
    /\ kpc = "start" /\ args \in ArgValues
    /\ tickers = <<>> /\ ti = 0 /\ failures = {} /\ attemptLog = <<>> /\ exitStatus = "none"

SpecCli == InitCli /\ [][NextCli]_vars

(***************************************************************************)
(* Properties of the store (specification SpecStore)                       *)
(***************************************************************************)
Keys(rs) == { Key(r) : r \in rs }
RowOf(rs, k) == CHOOSE r \in rs : Key(r) = k

\* an operation has ended, and how
Ended(o, how) == dpc = "done" /\ op = o /\ dbOutcome = how

\* the mutable fields of a record in which two records differ
DifferingFields(e1, e2) == { f \in {"quarter", "rev_est"} : e1[f] # e2[f] }

\* the row holds what the record's mutable fields are stored as
HoldsRecord(r, e) == r.quarter = e.quarter.v /\ r.rev_est = Decimal2(e.rev_est)

\* the rows after the statements of seq, executed in order from the rows rs
RECURSIVE Replay(_, _, _, _)
Replay(rs, seq, id, ts) ==
    IF seq = <<>> THEN rs
    ELSE LET r == Upsert(rs, Head(seq).e, id, ts)
         IN  Replay(r.rows, Tail(seq), IF r.rowcount = 1 THEN id + 1 ELSE id, ts)

\* the rows the transaction saw before the i-th statement of the operation
ViewBefore(i) == Replay(startRows, SubSeq(executed, 1, i - 1), startId, now)

\* pairs of statements of one batch on one key with no statement on it between
Successive(i, j) ==
    /\ i < j /\ Key(executed[i].e) = Key(executed[j].e)
    /\ \A k \in (i + 1)..(j - 1) : Key(executed[k].e) # Key(executed[i].e)

\* C11 as stated: upserting a record of a key the store does not hold reports
\* `inserted`; upserting the identical record again reports `unchanged` and leaves
\* the row as it is; upserting a record of the same key that differs in one
\* mutable field reports `updated`.  Single upserts in a row, and the statements
\* of one batch.
C11_IdempotentAsStated ==
    /\ Ended("upsert", "returned") =>
         /\ Key(earn) \notin Keys(startRows) => dbResult.action = "inserted"
         /\ prev = earn => dbResult.action = "unchanged" /\ persisted = startRows
         /\ (prev # Null /\ Key(prev) = Key(earn)
               /\ Cardinality(DifferingFields(prev, earn)) = 1) =>
              dbResult.action = "updated"
    /\ \A j \in 1..Len(executed) :
         /\ Key(executed[j].e) \notin Keys(ViewBefore(j)) => executed[j].rowcount = 1
         /\ \A i \in 1..(j - 1) :
              Successive(i, j) =>
                /\ executed[i].e = executed[j].e =>
                     /\ executed[j].rowcount = 0
                     /\ ViewBefore(j + 1) = ViewBefore(j)
                /\ Cardinality(DifferingFields(executed[i].e, executed[j].e)) = 1 =>
                     executed[j].rowcount = 2

\* C11, amended: as above, with `updated` reported exactly when the differing
\* field differs as the column stores it (rev_est is DECIMAL(20, 2): 1.230 and
\* 1.234 are stored alike); a difference the column does not hold reports
\* `unchanged`.
C11_Idempotent ==
    /\ Ended("upsert", "returned") =>
         /\ Key(earn) \notin Keys(startRows) => dbResult.action = "inserted"
         /\ prev = earn => dbResult.action = "unchanged" /\ persisted = startRows
         /\ (prev # Null /\ Key(prev) = Key(earn)
               /\ Cardinality(DifferingFields(prev, earn)) = 1) =>
              /\ ~HoldsRecord(RowOf(startRows, Key(earn)), earn) => dbResult.action = "updated"
              /\ HoldsRecord(RowOf(startRows, Key(earn)), earn) => dbResult.action = "unchanged"
    /\ \A j \in 1..Len(executed) :
         /\ Key(executed[j].e) \notin Keys(ViewBefore(j)) => executed[j].rowcount = 1
         /\ \A i \in 1..(j - 1) :
              Successive(i, j) =>
                /\ executed[i].e = executed[j].e =>
                     /\ executed[j].rowcount = 0
                     /\ ViewBefore(j + 1) = ViewBefore(j)
                /\ Cardinality(DifferingFields(executed[i].e, executed[j].e)) = 1 =>
                     LET r == RowOf(ViewBefore(j), Key(executed[j].e))
                     IN  executed[j].rowcount = IF HoldsRecord(r, executed[j].e) THEN 0 ELSE 2

\* a batch that inserted, left unchanged and updated the row of one key, in order
C11_Witness ==
    /\ Ended("load", "returned")
    /\ Len(executed) = 3
    /\ executed[1].rowcount = 1 /\ executed[2].rowcount = 0 /\ executed[3].rowcount = 2
    /\ executed[1].e = executed[2].e
    /\ Key(executed[3].e) = Key(executed[1].e)
    /\ dbResult = [inserted |-> 1, updated |-> 1, unchanged |-> 1, attempted |-> 3]

\* a statement has just been executed: the record it carried
Executing == Len(executed') = Len(executed) + 1
Carried == executed'[Len(executed')].e

UniqueKeys(rs) == \A r1, r2 \in rs : Key(r1) = Key(r2) => r1 = r2

\* C12: the persisted table, and the rows any transaction sees, hold at most one
\* row per (ticker, report date), and a statement for a key that is present
\* leaves the number of rows as it is.
C12_OneRowPerKey ==
    /\ [](UniqueKeys(persisted) /\ UniqueKeys(view))
    /\ [][(Executing /\ Key(Carried) \in Keys(view)) =>
             Cardinality(view') = Cardinality(view)]_vars

\* two operations wrote rows of both keys, one of them twice
C12_Witness ==
    /\ Ended("load", "returned")
    /\ Cardinality(persisted) = 2
    /\ startRows # {}
    /\ \E i \in 1..Len(executed) : Key(executed[i].e) \in Keys(startRows)

\* what the store state before a statement says the statement is
Expected(rs, e) ==
    IF Key(e) \notin Keys(rs) THEN "inserted"
    ELSE IF HoldsRecord(RowOf(rs, Key(e)), e) THEN "unchanged"
    ELSE "updated"

\* the action that counts rc affected rows
CountMeans(rc) == CASE rc = 1 -> "inserted" [] rc = 2 -> "updated" [] rc = 0 -> "unchanged"

\* stats with one more statement of action a
Tallied(st, a) == [st EXCEPT ![a] = @ + 1, !.attempted = @ + 1]

RECURSIVE TallyOf(_)
TallyOf(seq) ==
    IF seq = <<>> THEN ZeroStats
    ELSE Tallied(TallyOf(SubSeq(seq, 1, Len(seq) - 1)), CountMeans(seq[Len(seq)].rowcount))

\* C13: the affected-row count of every statement is 1, 2 or 0 and says what the
\* store state before it says (inserted: key absent; updated: key present and a
\* column changes; unchanged: key present and no column changes); the single
\* upsert returns, and the batch counts, the action of that count, so the two
\* classify a record against a store state alike.
C13_ActionFromCount ==
    /\ \A j \in 1..Len(executed) :
         /\ executed[j].rowcount \in {0, 1, 2}
         /\ CountMeans(executed[j].rowcount) = Expected(ViewBefore(j), executed[j].e)
    /\ Ended("upsert", "returned") =>
         /\ dbResult.action = CountMeans(executed[1].rowcount)
         /\ dbResult.action = Expected(startRows, earn)
    /\ (op \in {"load", "direct"} /\ dpc \in {"load_row", "load_commit", "load_final",
                                               "load_finally", "done"}) =>
         stats = TallyOf(executed)
    /\ Ended("load", "returned") => dbResult = TallyOf(executed)

\* a single upsert reported `updated` for a row an earlier operation inserted
C13_Witness ==
    /\ Ended("upsert", "returned")
    /\ dbResult.action = "updated"
    /\ Key(earn) \in Keys(startRows)
    /\ ~HoldsRecord(RowOf(startRows, Key(earn)), earn)

LoadPcs == {"load_row", "load_commit", "load_final", "load_finally"}
Uncommitted == Len(executed) - committed

\* C14: in load_earnings_rows the rows executed and not committed are `batch`
\* of them, never more than commit_every, and fewer than commit_every whenever
\* the next row is taken (the commit follows the commit_every-th row at once);
\* when it returns, every executed row is committed: the table is the one all
\* its statements lead to.
C14_CommitEvery ==
    /\ dpc \in LoadPcs =>
         /\ Uncommitted <= commit_every
         /\ (dbOutcome = "running" /\ dpc # "load_finally") => batch = Uncommitted
         /\ dpc = "load_row" => Uncommitted < commit_every
    /\ \A o \in {"load", "direct"} :
         Ended(o, "returned") =>
           /\ Uncommitted = 0
           /\ persisted = Replay(startRows, executed, startId, now)

\* three rows with commit_every = 2: one commit after the second row, the
\* remainder committed at the end
C14_Witness ==
    /\ Ended("load", "returned")
    /\ commit_every = 2 /\ Len(executed) = 3 /\ batch = 1 /\ committed = 3

\* C15: when the batched upsert ends with an exception, the table holds the
\* rows of the statements up to its last commit, applied to the table it
\* started from, and none of the statements after that commit.
C15_CommittedBatchesStay ==
    \A o \in {"load", "direct"}, how \in {"date_error", "db_error"} :
       Ended(o, how) =>
          persisted = Replay(startRows, SubSeq(executed, 1, committed), startId, now)

\* a batch failed with a database error after three statements, two of them
\* committed: the committed ones are persisted, the third is not
C15_Witness ==
    /\ Ended("load", "db_error")
    /\ committed = 2 /\ Len(executed) = 3
    /\ persisted # startRows
    /\ persisted # Replay(startRows, executed, startId, now)

\* the rows of a batch that have a ticker and a date that parses
GoodRows == { i \in 1..Len(rows) :
                /\ RowTicker(rows[i], default_ticker) # <<>>
                /\ ToDate(rows[i].date) # Null }
BadDateRows == { i \in 1..Len(rows) :
                   /\ RowTicker(rows[i], default_ticker) # <<>>
                   /\ ToDate(rows[i].date) = Null }

\* C16 as stated: a batch with a record of an unparsed date, on a store that
\* does not fail, ends with every other record upserted and counted.
C16_BadDateConfined ==
    \A o \in {"load", "direct"} :
       (dpc = "done" /\ op = o /\ BadDateRows # {}
          /\ dbOutcome \notin {"config_error", "connect_error", "db_error", "file_error"}) =>
         /\ dbOutcome = "returned"
         /\ dbResult.attempted = Cardinality(GoodRows)
         /\ \A i \in GoodRows :
              Key(ToEarnings(rows[i], default_ticker)) \in Keys(persisted)

\* C17: no step removes a persisted row or changes its key, id or creation
\* timestamp; a statement leaves every row of another key as it is, keeps the
\* key, id and creation timestamp of the row of its key, and adds no row of
\* another key.
C17_KeysOnlyGrow ==
    [][/\ \A r \in persisted :
            \E r2 \in persisted' :
               Key(r2) = Key(r) /\ r2.id = r.id /\ r2.created_at = r.created_at
       /\ Executing =>
            /\ \A r \in view :
                 IF Key(r) = Key(Carried)
                 THEN \E r2 \in view' :
                        Key(r2) = Key(r) /\ r2.id = r.id /\ r2.created_at = r.created_at
                 ELSE r \in view'
            /\ \A r2 \in view' : Key(r2) \in Keys(view) \cup {Key(Carried)}
      ]_vars

\* a later operation updated one of two persisted rows
C17_Witness ==
    /\ dpc = "done" /\ dbOutcome = "returned"
    /\ Cardinality(startRows) = 2
    /\ persisted # startRows
    /\ Keys(persisted) = Keys(startRows)
    /\ \E r \in persisted : r.created_at < now

\* the configurations the validation is to reject
InvalidConfiguration(st) ==
    \/ ~("int" \in DOMAIN st.port \/ ("str" \in DOMAIN st.port /\ DigitsValue(Strip(st.port.str)) >= 0))
    \/ \E n \in {"host", "user", "database", "table"} : Strip(st[n]) = <<>>
    \/ st.password = Null

\* C20: with an invalid configuration no operation of the store attempts a
\* connection, and every one of them ends with the configuration error; with a
\* valid one none does.
C20_ValidatedBeforeConnect ==
    /\ InvalidConfiguration(settings) =>
         /\ connects = 0 /\ conn = "none"
         /\ dpc = "done" => dbOutcome = "config_error"
         /\ dpc \in {"idle", "done"} \cup ConnectPcs \cup {"direct_validate"}
    /\ dbOutcome = "config_error" => InvalidConfiguration(settings)

\* the pipeline's store sink stopped at its first line on a bad port
C20_Witness ==
    /\ Ended("direct", "config_error")
    /\ PortInt(settings.port) < 0
    /\ connects = 0

(***************************************************************************)
(* Properties of main and run_for_ticker (specification SpecCli)           *)
(***************************************************************************)
Attempted == [i \in 1..Len(attemptLog) |-> attemptLog[i][1]]
FailedSubjects == { attemptLog[i][1] : i \in { k \in 1..Len(attemptLog) : attemptLog[k][2] = "raised" } }

\* C18: the subjects attempted so far are the first subjects of the list, in
\* order, whatever their runs ended with; the failure summary names the subjects
\* whose run raised; once the loop is entered main ends only after the last
\* subject, and it exits with the failures exactly when the summary is not empty.
C18_SubjectsIsolated ==
    /\ Attempted = SubSeq(tickers, 1, Len(attemptLog))
    /\ Len(attemptLog) = IF kpc = "in_run" THEN ti - 1 ELSE ti
    /\ { f.ticker : f \in failures } = FailedSubjects
    /\ exitStatus \in {"no_tickers", "mkdir_error"} => attemptLog = <<>>
    /\ (kpc = "done" /\ exitStatus \in {"ok", "failures"}) =>
         /\ Len(attemptLog) = Len(tickers)
         /\ exitStatus = "failures" <=> failures # {}

\* three subjects: the first and the second failed, the third was still run
C18_Witness ==
    /\ kpc = "done" /\ exitStatus = "failures"
    /\ Len(tickers) = 3
    /\ attemptLog = << <<tickers[1], "raised">>, <<tickers[2], "raised">>, <<tickers[3], "returned">> >>

SinksTried == [i \in 1..Len(sinkLog) |-> sinkLog[i][1]]

\* the sinks that are requested and applicable, in the order of the code
SinksDue ==
    SelectSeq(<<"json", "db", "csv">>,
              LAMBDA k : CASE k = "json" -> args.parse_json /\ VARIANT_OVERVIEW \in run_results
                           [] k = "db" -> VARIANT_EARNINGS \in run_results /\ args.sink \in {"db", "both"}
                           [] OTHER -> VARIANT_EARNINGS \in run_results /\ args.sink \in {"csv", "both"})

\* C19: when run_for_ticker has got its documents it returns; every sink that
\* is requested and applicable has been tried, in the order json, db, csv,
\* whatever the sinks before it ended with; the result holds a sink's key
\* exactly when that sink was tried and completed.  It raises only before any
\* sink is tried.
C19_SinksIsolated ==
    /\ (rpc = "done" /\ runOutcome = "returned") =>
         /\ SinksTried = SinksDue
         /\ \A k \in {"json", "db", "csv"} :
              k \in run_results <=> \E i \in 1..Len(sinkLog) : sinkLog[i] = <<k, "ok">>
    /\ (rpc = "done" /\ runOutcome = "raised") => sinkLog = <<>>
    /\ rpc \in {"db", "csv", "return"} => runOutcome = "running"

\* the JSON export and the store sink failed, the CSV sink completed
C19_Witness ==
    /\ rpc = "done" /\ runOutcome = "returned"
    /\ sinkLog = << <<"json", "raised">>, <<"db", "raised">>, <<"csv", "ok">> >>
    /\ "csv" \in run_results /\ "json" \notin run_results /\ "db" \notin run_results

(***************************************************************************)
(* The parsers: eh_helper.py, history_parser.py, controller.py             *)
(*                                                                         *)
(* An Optional[str] is Null or Some(text).  Numbers are in thousandths.    *)
(***************************************************************************)
IsLetter(c) == \E i \in 1..26 : LowerLetters[i] = c \/ UpperLetters[i] = c
IsDigit(c) == DigitValue(c) >= 0
\* \w of the re module
IsWordChar(c) == IsLetter(c) \/ IsDigit(c) \/ c = "_"

\* s.replace(old, ""): every occurrence, left to right
RECURSIVE Remove(_, _)
Remove(s, old) ==
    IF Len(s) < Len(old) THEN s
    ELSE IF SubSeq(s, 1, Len(old)) = old THEN Remove(SubSeq(s, Len(old) + 1, Len(s)), old)
    ELSE <<Head(s)>> \o Remove(Tail(s), old)

\* re.search(r"\b(word)\b", s, flags=re.I)
WordSearch(s, word) ==
    \E i \in 1..(Len(s) - Len(word) + 1) :
       /\ Lower(SubSeq(s, i, i + Len(word) - 1)) = word
       /\ i = 1 \/ ~IsWordChar(s[i - 1])
       /\ i + Len(word) > Len(s) \/ ~IsWordChar(s[i + Len(word)])

\* s.split()
Words(s) == SelectSeq(Split(s, " "), LAMBDA w : w # <<>>)

\* " ".join(words)
RECURSIVE Join(_)
Join(ws) ==
    IF ws = <<>> THEN <<>>
    ELSE IF Len(ws) = 1 THEN ws[1]
    ELSE ws[1] \o <<" ">> \o Join(Tail(ws))

W_est == <<"e","s","t">>
W_estimate == <<"e","s","t","i","m","a","t","e">>
W_actual == <<"a","c","t","u","a","l">>
\* the one character U+2014
EmDash == <<"emdash">>

\* NO_DATA
NO_DATA == { <<"-">>, <<"-","-">>, EmDash, <<"N","/","A">>, <<"N","A">>, <<"n","/","a">>, <<>> }

\* re.match(r"^(-?[\d.]+)\s*([A-Za-z]?)$", s): Null, or the two groups
MatchValue(s) ==
    LET neg  == s # <<>> /\ Head(s) = "-"
        t    == IF neg THEN Tail(s) ELSE s
        ends == { k \in 0..Len(t) : \A i \in 1..k : IsDigit(t[i]) \/ t[i] = "." }
        k    == CHOOSE m \in ends : \A n \in ends : n <= m
        rest == LStrip(SubSeq(t, k + 1, Len(t)), " ")
        num  == (IF neg THEN <<"-">> ELSE <<>>) \o SubSeq(t, 1, k)
    IN  IF k = 0 THEN Null
        ELSE IF rest = <<>> THEN Some([value |-> num, unit |-> <<>>])
        ELSE IF Len(rest) = 1 /\ IsLetter(rest[1]) THEN Some([value |-> num, unit |-> rest])
        ELSE Null

NoValue == [value |-> Null, unit |-> Null, is_est |-> Null]

\* lines 33-42
StripMarkers(s) ==
    Strip(Remove(Remove(Remove(Remove(Remove(Remove(Remove(s,
       <<"(">> \o W_est \o <<")">>), <<"(">> \o W_actual \o <<")">>), W_est),
       W_actual), <<"$">>), <<",">>), <<"*">>))

\* lines 26-31
MarkerOf(s) ==
    IF WordSearch(s, W_est) \/ WordSearch(s, W_estimate) THEN Some(TRUE)
    ELSE IF WordSearch(s, W_actual) THEN Some(FALSE)
    ELSE Null

\* lines 44-50: t is the text without the markers, m its match
ValueOf(t, m, is_est) ==
    IF m = Null
    THEN [value |-> IF t = <<>> THEN Null ELSE Some(t), unit |-> Null, is_est |-> is_est]
    ELSE [value |-> Some(m.v.value),
          unit |-> IF m.v.unit = <<>> THEN Null ELSE Some(Upper(m.v.unit)),
          is_est |-> is_est]

\* lines 21-50: s is the text stripped
ParseStripped(s, t) ==
    IF s \in NO_DATA THEN NoValue ELSE ValueOf(t, MatchValue(t), MarkerOf(s))

\* _parse_one_value
ParseOneValue(raw) ==
    IF raw = Null \/ raw.v = <<>> THEN NoValue
    ELSE ParseStripped(Strip(raw.v), StripMarkers(Strip(raw.v)))

\* one side of the dict parse_est_act returns
Side(toks, i) ==
    IF i = 0 THEN [value |-> Null, unit |-> Null]
    ELSE [value |-> toks[i].value, unit |-> toks[i].unit]

\* parse_est_act with the markers ignored: the first token is the estimate
SlotsPositional(toks) ==
    IF Len(toks) = 1 THEN [est |-> 0, act |-> 1] ELSE [est |-> 1, act |-> 2]

\* parse_est_act with a lone unmarked value taken for the estimate
SlotsLoneIsEstimate(toks) ==
    IF Len(toks) = 1
    THEN IF toks[1].is_est = Some(FALSE) THEN [est |-> 0, act |-> 1] ELSE [est |-> 1, act |-> 0]
    ELSE [est |-> 1, act |-> 2]

\* parse_est_act, lines 111-134: the token (1 or 2, 0 for none) that fills est
\* and the one that fills act; `is` on the two dicts is equality of position
Slots(toks) ==
    IF Len(toks) = 1
    THEN IF toks[1].is_est = Some(TRUE) THEN [est |-> 1, act |-> 0] ELSE [est |-> 0, act |-> 1]
    ELSE LET a == toks[1].is_est
             b == toks[2].is_est
             est0 == IF a = Some(TRUE) THEN 1 ELSE IF b = Some(TRUE) THEN 2 ELSE 0
             act0 == IF a = Some(FALSE) THEN 1 ELSE IF b = Some(FALSE) THEN 2 ELSE 0
             est == IF est0 # 0 THEN est0 ELSE IF act0 = 1 THEN 2 ELSE 1
             act == IF act0 # 0 THEN act0 ELSE IF est = 2 THEN 1 ELSE 2
         IN  IF a # Null \/ b # Null THEN [est |-> est, act |-> act]
             ELSE [est |-> 1, act |-> 2]

\* lines 136-139: the dict returned
Sides(toks, slots) == [est |-> Side(toks, slots.est), act |-> Side(toks, slots.act)]

\* values[:2] parsed
Toks(values) ==
    [i \in 1..(IF Len(values) > 2 THEN 2 ELSE Len(values)) |-> ParseOneValue(Some(values[i]))]

\* parse_est_act
ParseEstAct(values) ==
    IF values = <<>> THEN [est |-> Side(<<>>, 0), act |-> Side(<<>>, 0)]
    ELSE Sides(Toks(values), Slots(Toks(values)))

\* float(s) of a text: optional sign, digits, at most three decimals; Null for
\* ValueError
FloatOf(s) ==
    LET t == Strip(s)
        signed == t # <<>> /\ Head(t) \in {"-", "+"}
        x == PyFloat(IF signed THEN Tail(t) ELSE t)
    IN  IF x < 0 THEN Null
        ELSE IF t[1] = "-" THEN Some(0 - x) ELSE Some(x)

\* determine_status with the comparison of actual and estimate asked first
DetermineStatusCompareFirst(percentage, actual, estimate) ==
    IF actual # Null /\ estimate # Null /\ FloatOf(actual.v) # Null /\ FloatOf(estimate.v) # Null
    THEN Some(IF FloatOf(actual.v).v >= FloatOf(estimate.v).v THEN "Beat" ELSE "Miss")
    ELSE IF percentage # Null THEN Some(IF percentage.v >= 0 THEN "Beat" ELSE "Miss")
    ELSE Null

\* determine_status
DetermineStatus(percentage, actual, estimate) ==
    IF percentage # Null THEN Some(IF percentage.v >= 0 THEN "Beat" ELSE "Miss")
    ELSE IF actual # Null /\ estimate # Null
    THEN IF FloatOf(actual.v) = Null \/ FloatOf(estimate.v) = Null THEN Null
         ELSE Some(IF FloatOf(actual.v).v >= FloatOf(estimate.v).v THEN "Beat" ELSE "Miss")
    ELSE Null

\* parse_percent
ParsePercent(s) ==
    IF s = Null \/ s.v = <<>> THEN Null
    ELSE FloatOf(Remove(Remove(Strip(s.v), <<"%">>), <<",">>))

\* clean_text
CleanText(s) ==
    IF s = Null \/ s.v = <<>> THEN Null
    ELSE LET t == Strip(Join(Words(s.v)))
         IN  IF t \in { <<"-">>, <<"-","-">>, EmDash } THEN Null ELSE Some(t)

\* the places where a pattern of _QUARTER_PATTERNS matches (re.IGNORECASE; the
\* cleaned text has single spaces)
QuarterMatches(s, pat) ==
    { i \in 1..(Len(s) - 6) :
        /\ CASE pat = 1 -> UpperChar(s[i]) = "Q" /\ s[i + 1] \in {"1", "2", "3", "4"}
              [] pat = 2 -> UpperChar(s[i]) = "F" /\ UpperChar(s[i + 1]) = "Y"
              [] OTHER   -> UpperChar(s[i]) = "H" /\ s[i + 1] \in {"1", "2"}
        /\ s[i + 2] = " "
        /\ \A k \in 3..6 : IsDigit(s[i + k]) }

\* normalize_quarter
NormalizeQuarter(raw) ==
    LET r == CleanText(raw)
        pats == { p \in 1..3 : QuarterMatches(r.v, p) # {} }
        p == CHOOSE q \in pats : \A q2 \in pats : q <= q2
        i == CHOOSE k \in QuarterMatches(r.v, p) : \A k2 \in QuarterMatches(r.v, p) : k <= k2
    IN  IF r = Null \/ r.v = <<>> THEN Null
        ELSE IF pats = {} THEN r
        ELSE Some(Upper(SubSeq(r.v, i, i + 6)))

\* %b and %a of strptime (C locale), in lower case
MonthNames ==
    << <<"j","a","n">>, <<"f","e","b">>, <<"m","a","r">>, <<"a","p","r">>,
       <<"m","a","y">>, <<"j","u","n">>, <<"j","u","l">>, <<"a","u","g">>,
       <<"s","e","p">>, <<"o","c","t">>, <<"n","o","v">>, <<"d","e","c">> >>
DayNames ==
    { <<"m","o","n">>, <<"t","u","e">>, <<"w","e","d">>, <<"t","h","u">>,
      <<"f","r","i">>, <<"s","a","t">>, <<"s","u","n">> }

\* the number a text of one to maxlen digits writes when it is in lo..hi, else -1
NumIn(t, maxlen, lo, hi) ==
    IF Len(t) \in 1..maxlen /\ DigitsValue(t) \in lo..hi THEN DigitsValue(t) ELSE -1

\* a word of the text without the comma the format has after it, <<>> when the
\* comma is not there
BeforeComma(w) == IF w # <<>> /\ w[Len(w)] = "," THEN SubSeq(w, 1, Len(w) - 1) ELSE <<>>

MonthOf(w) ==
    IF \E m \in 1..12 : MonthNames[m] = Lower(w)
    THEN CHOOSE m \in 1..12 : MonthNames[m] = Lower(w) ELSE -1

\* datetime.strptime(cleaned, "%b %d, %Y") on the words of the text: Null for
\* ValueError
StrptimeDate(ws) ==
    IF Len(ws) # 3 THEN Null
    ELSE LET m == MonthOf(ws[1])
             d == NumIn(BeforeComma(ws[2]), 2, 1, 31)
             y == IF Len(ws[3]) = 4 THEN NumIn(ws[3], 4, 1, 9999) ELSE -1
         IN  IF m > 0 /\ d > 0 /\ y > 0 /\ d <= DaysIn(y, m)
             THEN Some([y |-> y, m |-> m, d |-> d])
             ELSE Null

\* datetime.strptime(cleaned, "%a, %b %d, %Y, %I:%M %p") on the words of the text
StrptimeDateTime(ws) ==
    IF Len(ws) # 6 THEN Null
    ELSE LET date == StrptimeDate(<<ws[2], ws[3], BeforeComma(ws[4])>>)
             hm   == Split(ws[5], ":")
             I    == IF Len(hm) = 2 THEN NumIn(hm[1], 2, 1, 12) ELSE -1
             M    == IF Len(hm) = 2 THEN NumIn(hm[2], 2, 0, 59) ELSE -1
         IN  IF /\ Lower(BeforeComma(ws[1])) \in DayNames
                /\ date # Null
                /\ I > 0 /\ M >= 0
                /\ Lower(ws[6]) \in { <<"a","m">>, <<"p","m">> }
             THEN Some([y |-> date.v.y, m |-> date.v.m, d |-> date.v.d,
                        I |-> I, M |-> M, p |-> Upper(ws[6])])
             ELSE Null

DigitChar(n) == <<"0","1","2","3","4","5","6","7","8","9">>[n + 1]

\* the decimal digits of n, at least w of them
RECURSIVE Digits(_, _)
Digits(n, w) ==
    IF n < 10 /\ w <= 1 THEN <<DigitChar(n)>>
    ELSE Digits(n \div 10, w - 1) \o <<DigitChar(n % 10)>>

\* dt.strftime("%m/%d/%Y")
FmtDate(dt) == Digits(dt.m, 2) \o <<"/">> \o Digits(dt.d, 2) \o <<"/">> \o Digits(dt.y, 4)

\* _fmt_time_portable: "%#I:%M %p" where the C library takes it (padded: glibc
\* ignores the flag and pads the hour), "%-I:%M %p" where it raises
FmtTimePortable(dt, padded) ==
    Digits(dt.I, IF padded THEN 2 ELSE 1) \o <<":">> \o Digits(dt.M, 2) \o <<" ">> \o dt.p

\* cleaned without the suffix, when it ends with it in any letter case
DropSuffix(cleaned, suffix) ==
    IF /\ Len(cleaned) >= Len(suffix)
       /\ Upper(SubSeq(cleaned, Len(cleaned) - Len(suffix) + 1, Len(cleaned))) = suffix
    THEN Strip(SubSeq(cleaned, 1, Len(cleaned) - Len(suffix)))
    ELSE cleaned

\* the result of parse_date_time for the text the two patterns are tried on
Parsed(cleaned, padded) ==
    LET ws == Words(cleaned)
    IN  IF StrptimeDateTime(ws) # Null
        THEN [date |-> Some(FmtDate(StrptimeDateTime(ws).v)),
              time |-> Some(FmtTimePortable(StrptimeDateTime(ws).v, padded))]
        ELSE IF StrptimeDate(ws) # Null
        THEN [date |-> Some(FmtDate(StrptimeDate(ws).v)), time |-> Null]
        ELSE [date |-> Some(cleaned), time |-> Null]

\* parse_date_time with the time of the first pattern left out
ParseDateTimeNoTime(raw_text, padded) ==
    LET r == CleanText(raw_text)
        cleaned == DropSuffix(DropSuffix(DropSuffix(Strip(r.v),
                       Upper(W_estimate)), Upper(W_est)), Upper(W_actual))
    IN  IF r = Null \/ r.v = <<>> THEN [date |-> Null, time |-> Null]
        ELSE [Parsed(cleaned, padded) EXCEPT !.time = Null]

\* parse_date_time
ParseDateTime(raw_text, padded) ==
    LET r == CleanText(raw_text)
        cleaned == DropSuffix(DropSuffix(DropSuffix(Strip(r.v),
                       Upper(W_estimate)), Upper(W_est)), Upper(W_actual))
    IN  IF r = Null \/ r.v = <<>> THEN [date |-> Null, time |-> Null]
        ELSE Parsed(cleaned, padded)

\* a or b
Or(a, b) == IF a # Null /\ a.v # <<>> THEN a ELSE b

\* bool(x) of an Optional[str]
Truthy(x) == x # Null /\ x.v # <<>>

\* x or ""
OrEmpty(x) == IF Truthy(x) THEN x.v ELSE <<>>

\* f"{x:.2f}" (the texts parsed have at most two decimals)
Fixed2(x) ==
    LET h == ((IF x < 0 THEN 0 - x ELSE x) + 5) \div 10
    IN  (IF x < 0 THEN <<"-">> ELSE <<>>) \o Digits(h \div 100, 1) \o <<".">> \o Digits(h % 100, 2)

\* the header keys _transform_row reads
RowKeys == {"earnings", "quarter", "release_date", "date", "rev_est", "rev_act",
            "eps_est", "eps_act", "rev_surp", "rev_pct", "eps_surp", "eps_pct"}

\* _row_to_map: the cell texts cleaned, Null for a header without a cell
RowToMap(cells) == [k \in RowKeys |-> CleanText(cells[k])]

\* [v for v in [est_raw, act_raw] if v]
TruthyValues(a, b) ==
    (IF Truthy(a) THEN <<a.v>> ELSE <<>>) \o (IF Truthy(b) THEN <<b.v>> ELSE <<>>)

\* line 112 with the date left out of the test
DiscardWithoutDate(quarter, date, rev_est, rev_act, eps_est, eps_act) ==
    ~(Truthy(quarter) \/ Truthy(rev_est) \/ Truthy(rev_act)
        \/ Truthy(eps_est) \/ Truthy(eps_act))

\* _transform_row, line 112: not any([quarter, date, rev_est, rev_act, eps_est, eps_act])
Discard(quarter, date, rev_est, rev_act, eps_est, eps_act) ==
    ~(Truthy(quarter) \/ Truthy(date) \/ Truthy(rev_est) \/ Truthy(rev_act)
        \/ Truthy(eps_est) \/ Truthy(eps_act))

\* _transform_row, lines 112-129: Null for the row it drops
Record(ticker, quarter, date, rev, eps, rev_pct, eps_pct, rev_status, eps_status) ==
    IF Discard(quarter, date, rev.est.value, rev.act.value, eps.est.value, eps.act.value)
    THEN Null
    ELSE Some([ticker |-> ticker,
               quarter |-> OrEmpty(quarter),
               date |-> OrEmpty(date),
               rev_est |-> OrEmpty(rev.est.value),
               rev_est_unit |-> OrEmpty(rev.est.unit),
               rev_act |-> OrEmpty(rev.act.value),
               rev_act_unit |-> OrEmpty(rev.act.unit),
               rev_pct |-> IF rev_pct = Null THEN <<>> ELSE Fixed2(rev_pct.v),
               rev_status |-> IF rev_status = Null THEN "" ELSE rev_status.v,
               eps_est |-> OrEmpty(eps.est.value),
               eps_act |-> OrEmpty(eps.act.value),
               eps_pct |-> IF eps_pct = Null THEN <<>> ELSE Fixed2(eps_pct.v),
               eps_status |-> IF eps_status = Null THEN "" ELSE eps_status.v])

\* _transform_row, lines 109-110
WithStatus(ticker, quarter, date, rev, eps, rev_pct, eps_pct) ==
    Record(ticker, quarter, date, rev, eps, rev_pct, eps_pct,
           DetermineStatus(rev_pct, rev.act.value, rev.est.value),
           DetermineStatus(eps_pct, eps.act.value, eps.est.value))

\* _transform_row
TransformRow(row, ticker) ==
    WithStatus(ticker,
               NormalizeQuarter(Or(Or(row.earnings, row.quarter), Null)),
               ParseDateTime(Or(row.release_date, row.date), FALSE).date,
               ParseEstAct(TruthyValues(row.rev_est, row.rev_act)),
               ParseEstAct(TruthyValues(row.eps_est, row.eps_act)),
               ParsePercent(Or(row.rev_surp, row.rev_pct)),
               ParsePercent(Or(row.eps_surp, row.eps_pct)))

\* lines 34-36: the record appended, when there is one
Kept(parsed) == IF parsed = Null THEN <<>> ELSE <<parsed.v>>

\* a `tr` without cells
NoCells == [cells |-> FALSE]

\* parse_rows: doc is Null when no table or no header is found, else the body
\* rows of the table
RECURSIVE ParseRows(_, _)
ParseRows(doc, ticker) ==
    IF doc = Null \/ doc.v = <<>> THEN <<>>
    ELSE Kept(IF "cells" \in DOMAIN Head(doc.v) THEN Null
              ELSE TransformRow(RowToMap(Head(doc.v)), ticker))
         \o ParseRows(Some(Tail(doc.v)), ticker)

\* df.drop_duplicates(subset=["quarter", "date"], keep="last")
DropDuplicatesKeepLast(rs) ==
    LET keep == { i \in 1..Len(rs) :
                    \A j \in (i + 1)..Len(rs) :
                       <<rs[j].quarter, rs[j].date>> # <<rs[i].quarter, rs[i].date>> }
        F[i \in 0..Len(rs)] ==
            IF i = 0 THEN <<>> ELSE IF i \in keep THEN Append(F[i - 1], rs[i]) ELSE F[i - 1]
    IN  F[Len(rs)]

\* parse_earnings, lines 33-34: df.drop_duplicates(subset=["quarter", "date"],
\* keep="first").reset_index(drop=True)
DropDuplicates(rs) ==
    LET keep == { i \in 1..Len(rs) :
                    \A j \in 1..(i - 1) :
                       <<rs[j].quarter, rs[j].date>> # <<rs[i].quarter, rs[i].date>> }
        F[i \in 0..Len(rs)] ==
            IF i = 0 THEN <<>> ELSE IF i \in keep THEN Append(F[i - 1], rs[i]) ELSE F[i - 1]
    IN  F[Len(rs)]

(***************************************************************************)
(* The parsers called: one call in a behaviour, its argument drawn in the  *)
(* initial state (specification SpecParse)                                 *)
(***************************************************************************)
\* the marker words a value token may carry, with the flag each asks for
Markers ==
    { [text |-> <<>>, flag |-> Null],
      [text |-> <<" ">> \o W_est, flag |-> Some(TRUE)],
      [text |-> <<" ", "(">> \o W_est \o <<")">>, flag |-> Some(TRUE)],
      [text |-> <<" ">> \o W_estimate, flag |-> Some(TRUE)],
      [text |-> <<" ">> \o Upper(W_est), flag |-> Some(TRUE)],
      [text |-> <<" ">> \o W_actual, flag |-> Some(FALSE)],
      [text |-> <<" ", "A">> \o Tail(W_actual), flag |-> Some(FALSE)],
      [text |-> <<" ", "(">> \o W_actual \o <<")">>, flag |-> Some(FALSE)] }

\* value tokens by their parts: sign, currency symbol, number with or without
\* thousands separators, unit letter, asterisk, marker word
TokenParts ==
    [sign : {<<>>, <<"-">>}, currency : {<<>>, <<"$">>},
     number : { <<"5">>, <<"1","2",".","3">>, <<"1",",","0","0","0">> },
     unit : {<<>>, <<"B">>, <<"m">>}, star : {<<>>, <<"*">>}, marker : Markers]

Compose(p) == p.sign \o p.currency \o p.number \o p.unit \o p.star \o p.marker.text

\* placeholders and other texts that are no number
OtherTokens ==
    { Null, Some(<<>>), Some(<<"-">>), Some(<<" ","-","-"," ">>), Some(EmDash),
      Some(<<"N","/","A">>), Some(<<"n","/","a">>), Some(<<"$">>), Some(<<"T","B","D">>),
      Some(<<"1",".","2",".","3"," ","x","y">>) }

(***************************************************************************)
(* EarningsHubOverviewParser.parse_latest: overview_parser.py              *)
(*                                                                         *)
(* The overview document is the sequence of its latest-report containers;  *)
(* a container has a date block (Null, or its quarter and date-time        *)
(* elements, each Null or its text) and a metrics block (Null, or its      *)
(* items: label, estimate and actual elements and the percentage           *)
(* paragraphs).                                                            *)
(***************************************************************************)
\* lines 125-133: the dict parse_latest starts with
LatestEmpty(ticker) ==
    [ticker |-> ticker, quarter |-> Null, date |-> Null,
     rev_est |-> Null, rev_est_unit |-> Null, rev_act |-> Null, rev_act_unit |-> Null,
     rev_prc |-> Null, rev_sta |-> Null,
     eps_est |-> Null, eps_act |-> Null, eps_prc |-> Null, eps_sta |-> Null]

\* lines 142-143: result["quarter"], result["date"] and result["time"] assigned
SetDate(result, q, d) ==
    ("quarter" :> q @@ "date" :> d.date @@ "time" :> d.time) @@ result

\* lines 137-143
WithDate(result, db, padded) ==
    IF db # Null /\ db.v.q # Null /\ db.v.dt # Null
    THEN SetDate(result, NormalizeQuarter(Some(Strip(db.v.q.v))),
                 ParseDateTime(Some(Strip(db.v.dt.v)), padded))
    ELSE result

\* extract_percentage_from_item, on the texts of the paragraphs it finds
RECURSIVE ExtractPercentage(_)
ExtractPercentage(ps) ==
    IF ps = <<>> THEN Null
    ELSE IF Contains(Strip(Head(ps)), <<"%">>)
              /\ FloatOf(Remove(Remove(Strip(Head(ps)), <<"%">>), <<",">>)) # Null
    THEN FloatOf(Remove(Remove(Strip(Head(ps)), <<"%">>), <<",">>))
    ELSE ExtractPercentage(Tail(ps))

\* lines 160-164
ItemValues(item) ==
    (IF item.est # Null THEN <<Strip(item.est.v)>> ELSE <<>>)
       \o (IF item.act # Null THEN <<Strip(item.act.v)>> ELSE <<>>)

\* lines 172-183
ApplyMetric(result, label_text, parsed, pct) ==
    IF Contains(label_text, <<"r","e","v">>)
    THEN [result EXCEPT !["rev_est"] = parsed.est.value, !["rev_est_unit"] = parsed.est.unit,
                        !["rev_act"] = parsed.act.value, !["rev_act_unit"] = parsed.act.unit,
                        !["rev_prc"] = pct,
                        !["rev_sta"] = DetermineStatus(pct, parsed.act.value, parsed.est.value)]
    ELSE IF Contains(label_text, <<"e","p","s">>)
    THEN [result EXCEPT !["eps_est"] = parsed.est.value, !["eps_act"] = parsed.act.value,
                        !["eps_prc"] = pct,
                        !["eps_sta"] = DetermineStatus(pct, parsed.act.value, parsed.est.value)]
    ELSE result

\* lines 150-183: one turn of `for item in mb.select(...)`
ApplyItem(result, item) ==
    IF item.label = Null THEN result
    ELSE ApplyMetric(result, Lower(Strip(item.label.v)), ParseEstAct(ItemValues(item)),
                     ExtractPercentage(item.ps))

RECURSIVE Metrics(_, _)
Metrics(result, items) ==
    IF items = <<>> THEN result ELSE Metrics(ApplyItem(result, Head(items)), Tail(items))

\* lines 135-187: a container without a metrics block is passed over after its
\* date block, the first one with a metrics block ends the loop
RECURSIVE LatestFrom(_, _, _)
LatestAfterDate(cs, dated, padded) ==
    IF Head(cs).mb = Null THEN LatestFrom(Tail(cs), dated, padded)
    ELSE Metrics(dated, Head(cs).mb.v)

LatestFrom(cs, result, padded) ==
    IF cs = <<>> THEN result
    ELSE LatestAfterDate(cs, WithDate(result, Head(cs).db, padded), padded)

\* parse_latest
ParseLatest(containers, ticker, padded) == LatestFrom(containers, LatestEmpty(ticker), padded)

\* the texts handed to parse_est_act
EstActTokens ==
    { <<"5">>, <<"4"," ","e","s","t">>, <<"6","B"," ","a","c","t","u","a","l">>,
      <<"-","-">>, <<"7"," ","(","e","s","t",")">> }

EstActLists ==
    {<<>>} \cup { <<a>> : a \in EstActTokens }
           \cup { <<a, b>> : a, b \in EstActTokens }
           \cup { <<a, b, c>> : a, b \in EstActTokens, c \in {<<"5">>} }

\* the arguments of determine_status
Percentages == { Null, Some(2500), Some(0), Some(0 - 1000) }
Amounts == { Null, Some(<<"5",".","0">>), Some(<<"4",".","0">>), Some(<<"-","1">>), Some(<<"x">>) }

\* the texts handed to parse_date_time
DateTexts ==
    { Null, Some(<<>>), Some(<<"-","-">>), Some(<<"E","S","T">>),
      Some(<<"W","e","d",","," ","J","u","l"," ","3","1",","," ","2","0","2","5",","," ","4",":","0","0"," ","P","M">>),
      Some(<<"w","e","d",","," "," ","j","u","l"," ","1",","," ","2","0","2","5",","," ","0","4",":","0","5"," ","p","m">>),
      Some(<<"T","h","u",","," ","F","e","b"," ","2","9",","," ","2","0","2","4",","," ","1","2",":","3","0"," ","A","M"," ","e","s","t">>),
      Some(<<"W","e","d",","," ","J","u","l"," ","3","1",","," ","2","0","2","5",","," ","1","3",":","0","0"," ","P","M">>),
      Some(<<"J","u","l"," ","3","1",","," ","2","0","2","5">>),
      Some(<<"J","u","l"," ","3","1",","," ","2","0","2","5"," ","E","s","t">>),
      Some(<<"F","e","b"," ","3","0",","," ","2","0","2","5">>),
      Some(<<"J","u","l"," ","3","1",",","2","0","2","5">>),
      Some(<<"T","B","D">>),
      Some(<<"T","B","D"," "," ","s","o","o","n">>),
      Some(<<" ","T","B","D"," ","a","c","t","u","a","l">>) }

\* the body rows of a history table, by the cell under each header
EmptyCells == [k \in RowKeys |-> Null]
QuarterText == <<"q","1"," ","2","0","2","5">>
DateText == <<"J","u","l"," ","3","1",","," ","2","0","2","5">>
BodyRows ==
    { NoCells,
      [EmptyCells EXCEPT !.rev_surp = Some(<<"5","%">>)],
      [EmptyCells EXCEPT !.quarter = Some(<<"-">>), !.date = Some(<<"-","-">>),
                         !.rev_est = Some(<<"$">>)],
      [EmptyCells EXCEPT !.earnings = Some(QuarterText), !.release_date = Some(DateText),
                         !.rev_est = Some(<<"1",".","2","B"," ","e","s","t">>),
                         !.rev_act = Some(<<"1",".","3","B">>),
                         !.eps_est = Some(<<"0",".","5">>), !.eps_act = Some(<<"0",".","6">>),
                         !.rev_surp = Some(<<"8",".","3","%">>)],
      [EmptyCells EXCEPT !.quarter = Some(QuarterText), !.date = Some(DateText),
                         !.eps_act = Some(<<"0",".","7">>)],
      [EmptyCells EXCEPT !.rev_act = Some(<<"9">>), !.eps_pct = Some(<<"-","1","%">>)],
      [EmptyCells EXCEPT !.release_date = Some(<<"T","B","D">>)],
      [EmptyCells EXCEPT !.quarter = Some(<<"q","2"," ","2","0","2","5">>),
                         !.date = Some(DateText), !.eps_est = Some(<<"0",".","5">>)] }

\* the documents handed to parse_earnings: no table, or up to MaxBody body rows
MaxBody == 3
Documents ==
    {Null} \cup { Some(b) : b \in UNION { [1..n -> BodyRows] : n \in 0..MaxBody } }

ParseTicker == <<"A">>

\* the latest-report containers of an overview document
DateTimeText ==
    <<"W","e","d",","," ","J","u","l"," ","3","1",","," ","2","0","2","5",","," ","4",":","0","0"," ","P","M">>
LatestDateBlocks ==
    { Null,
      Some([q |-> Null, dt |-> Some(DateText)]),
      Some([q |-> Some(QuarterText), dt |-> Some(DateTimeText)]) }
RevenueItem ==
    [label |-> Some(<<"R","e","v","e","n","u","e">>), est |-> Some(<<"1",".","2","B">>),
     act |-> Some(<<"1",".","3","B">>), ps |-> << <<"x","%">>, <<"8",".","3","%">> >>]
EpsItem ==
    [label |-> Some(<<"E","P","S">>), est |-> Some(<<"0",".","5">>), act |-> Null, ps |-> <<>>]
UnlabelledItem ==
    [label |-> Null, est |-> Some(<<"9">>), act |-> Null, ps |-> <<>>]
MetricsBlocks ==
    { Null, Some(<<>>), Some(<<RevenueItem>>), Some(<<RevenueItem, EpsItem>>),
      Some(<<UnlabelledItem, EpsItem>>) }
LatestContainers == [db : LatestDateBlocks, mb : MetricsBlocks]
MaxContainers == 2
LatestDocs == UNION { [1..n -> LatestContainers] : n \in 0..MaxContainers }

\* _parse_one_value(raw)
CallParseOneValue ==
    /\ fn = "_parse_one_value" /\ ret = Null
    /\ ret' = Some(ParseOneValue(arg))
    /\ UNCHANGED <<fn, arg, given, mid>>
    /\ UNCHANGED <<scrollVars, clickVars, stepVars, fetchVars, appVars, purgeVars,
                   refreshVars, raceVars>>

\* parse_est_act(values)
CallParseEstAct ==
    /\ fn = "parse_est_act" /\ ret = Null
    /\ ret' = Some(ParseEstAct(arg))
    /\ UNCHANGED <<fn, arg, given, mid>>
    /\ UNCHANGED <<scrollVars, clickVars, stepVars, fetchVars, appVars, purgeVars,
                   refreshVars, raceVars>>

\* determine_status(percentage, actual, estimate)
CallDetermineStatus ==
    /\ fn = "determine_status" /\ ret = Null
    /\ ret' = Some(DetermineStatus(arg.percentage, arg.actual, arg.estimate))
    /\ UNCHANGED <<fn, arg, given, mid>>
    /\ UNCHANGED <<scrollVars, clickVars, stepVars, fetchVars, appVars, purgeVars,
                   refreshVars, raceVars>>

\* parse_date_time(raw_text), on the platform given
CallParseDateTime ==
    /\ fn = "parse_date_time" /\ ret = Null
    /\ ret' = Some(ParseDateTime(arg, given.padded))
    /\ UNCHANGED <<fn, arg, given, mid>>
    /\ UNCHANGED <<scrollVars, clickVars, stepVars, fetchVars, appVars, purgeVars,
                   refreshVars, raceVars>>

\* parse_earnings, lines 23-24: rows = EarningsHubHistoryParser(soup, ticker).parse_rows()
CallParseRows ==
    /\ fn = "parse_earnings" /\ mid = Null
    /\ mid' = Some(ParseRows(arg, ParseTicker))
    /\ UNCHANGED <<fn, arg, given, ret>>
    /\ UNCHANGED <<scrollVars, clickVars, stepVars, fetchVars, appVars, purgeVars,
                   refreshVars, raceVars>>

\* parse_earnings, lines 25-34
ReturnParseEarnings ==
    /\ fn = "parse_earnings" /\ mid # Null /\ ret = Null
    /\ ret' = Some(DropDuplicates(mid.v))
    /\ UNCHANGED <<fn, arg, given, mid>>
    /\ UNCHANGED <<scrollVars, clickVars, stepVars, fetchVars, appVars, purgeVars,
                   refreshVars, raceVars>>

\* parse_latest(), on the platform given
CallParseLatest ==
    /\ fn = "parse_latest" /\ ret = Null
    /\ ret' = Some(ParseLatest(arg, ParseTicker, given.padded))
    /\ UNCHANGED <<fn, arg, given, mid>>
    /\ UNCHANGED <<scrollVars, clickVars, stepVars, fetchVars, appVars, purgeVars,
                   refreshVars, raceVars>>

ParseStep ==
    \/ CallParseOneValue
    \/ CallParseEstAct
    \/ CallDetermineStatus
    \/ CallParseDateTime
    \/ CallParseRows
    \/ ReturnParseEarnings
    \/ CallParseLatest

\* one call of one of the parsers
InitParse ==
    /\ ScrollIdle /\ ClickIdle /\ StepIdle /\ FetchIdle /\ StoreIdle /\ CliIdle /\ RunIdle
    /\ PurgeIdle /\ RefreshIdle /\ RaceIdle
    /\ mid = Null /\ ret = Null
    /\ \/ /\ fn = "_parse_one_value"
          /\ \/ \E p \in TokenParts : arg = Some(Compose(p)) /\ given = Some(p)
             \/ arg \in OtherTokens /\ given = Null
       \/ fn = "parse_est_act" /\ arg \in EstActLists /\ given = Null
       \/ /\ fn = "determine_status"
          /\ arg \in [percentage : Percentages, actual : Amounts, estimate : Amounts]
          /\ given = Null
       \/ fn = "parse_date_time" /\ arg \in DateTexts /\ given \in [padded : BOOLEAN]
       \/ fn = "parse_earnings" /\ arg \in Documents /\ given = Null
       \/ fn = "parse_latest" /\ arg \in LatestDocs /\ given \in [padded : BOOLEAN]

SpecParse == InitParse /\ [][ParseStep]_vars

(***************************************************************************)
(* Properties of the parsers (specification SpecParse)                     *)
(***************************************************************************)
\* the value and unit of a parsed token, as parse_est_act returns them
Filled(tok) == [value |-> tok.value, unit |-> tok.unit]
Unfilled == [value |-> Null, unit |-> Null]

C25_OneToken ==
    /\ (fn = "parse_est_act" /\ ret # Null /\ Len(arg) = 1) =>
          LET a == ParseOneValue(Some(arg[1]))
          IN  IF a.is_est = Some(TRUE)
              THEN ret.v = [est |-> Filled(a), act |-> Unfilled]
              ELSE ret.v = [est |-> Unfilled, act |-> Filled(a)]
    /\ (fn = "parse_est_act" /\ ret # Null /\ Len(arg) = 0) =>
          ret.v = [est |-> Unfilled, act |-> Unfilled]

\* a lone unmarked value is the actual
C25_Witness ==
    /\ fn = "parse_est_act" /\ ret # Null /\ arg = << <<"5">> >>
    /\ ret.v.act.value = Some(<<"5">>) /\ ret.v.est.value = Null

\* the text is a number float() takes
Numeric(x) == x # Null /\ FloatOf(x.v) # Null

\* C26: the status is decided by the sign of the surprise percentage when
\* there is one, whatever actual and estimate are; without a percentage and
\* with actual and estimate both numeric it is Beat exactly when actual >=
\* estimate and Miss otherwise; when neither comparison is possible it is
\* unknown (and the call returns).
C26_Status ==
    (fn = "determine_status" /\ ret # Null) =>
       /\ arg.percentage # Null =>
            ret.v = Some(IF arg.percentage.v >= 0 THEN "Beat" ELSE "Miss")
       /\ (arg.percentage = Null /\ Numeric(arg.actual) /\ Numeric(arg.estimate)) =>
            ret.v = Some(IF FloatOf(arg.actual.v).v >= FloatOf(arg.estimate.v).v
                         THEN "Beat" ELSE "Miss")
       /\ (arg.percentage = Null /\ ~(Numeric(arg.actual) /\ Numeric(arg.estimate))) =>
            ret.v = Null

\* a negative percentage decides Miss although actual 5.0 >= estimate 4.0
C26_Witness ==
    /\ fn = "determine_status" /\ ret # Null
    /\ arg = [percentage |-> Some(0 - 1000), actual |-> Some(<<"5",".","0">>),
              estimate |-> Some(<<"4",".","0">>)]
    /\ ret.v = Some("Miss")

\* the six fields of a body row: quarter, date, revenue estimate and actual,
\* EPS estimate and actual
SixOf(row) ==
    << NormalizeQuarter(Or(Or(row.earnings, row.quarter), Null)),
       ParseDateTime(Or(row.release_date, row.date), FALSE).date,
       ParseEstAct(TruthyValues(row.rev_est, row.rev_act)).est.value,
       ParseEstAct(TruthyValues(row.rev_est, row.rev_act)).act.value,
       ParseEstAct(TruthyValues(row.eps_est, row.eps_act)).est.value,
       ParseEstAct(TruthyValues(row.eps_est, row.eps_act)).act.value >>

\* the body row has at least one of the six
SomePresent(tr) ==
    /\ "cells" \notin DOMAIN tr
    /\ \E i \in 1..6 : Truthy(SixOf(RowToMap(tr))[i])

BodyOf(doc) == IF doc = Null THEN <<>> ELSE doc.v

\* C27: the rows assembled from a history table (before de-duplication) are,
\* in document order, the body rows that have at least one of quarter, date,
\* revenue estimate, revenue actual, EPS estimate and EPS actual: a row is
\* dropped exactly when all six are absent.
C27_DiscardRule ==
    (fn = "parse_earnings" /\ mid # Null) =>
       LET kept == SelectSeq(BodyOf(arg), SomePresent)
       IN  /\ Len(mid.v) = Len(kept)
           /\ \A i \in 1..Len(kept) :
                 << mid.v[i].quarter, mid.v[i].date, mid.v[i].rev_est, mid.v[i].rev_act,
                    mid.v[i].eps_est, mid.v[i].eps_act >>
                   = [j \in 1..6 |-> OrEmpty(SixOf(RowToMap(kept[i]))[j])]

\* a row with nothing but a surprise percentage is dropped, the row after it
\* with nothing but a date is kept
C27_Witness ==
    /\ fn = "parse_earnings" /\ mid # Null
    /\ arg = Some(<< [EmptyCells EXCEPT !.rev_surp = Some(<<"5","%">>)],
                     [EmptyCells EXCEPT !.release_date = Some(<<"T","B","D">>)] >>)
    /\ Len(mid.v) = 1 /\ mid.v[1].date = <<"T","B","D">> /\ mid.v[1].quarter = <<>>

KeyOf(r) == <<r.quarter, r.date>>

\* the places of the assembled rows whose (quarter, date) no earlier row has
FirstSeen(rs) == { i \in 1..Len(rs) : \A j \in 1..(i - 1) : KeyOf(rs[j]) # KeyOf(rs[i]) }

\* C28: the output of parse_earnings holds no two rows with the same
\* (quarter, date); for each (quarter, date) of the assembled rows it holds
\* the first row in document order, and the rows keep their document order.
C28_Deduplicated ==
    (fn = "parse_earnings" /\ ret # Null) =>
       /\ \A i, j \in 1..Len(ret.v) : KeyOf(ret.v[i]) = KeyOf(ret.v[j]) => i = j
       /\ Len(ret.v) = Cardinality(FirstSeen(mid.v))
       /\ \A k \in 1..Len(ret.v) :
             \E i \in FirstSeen(mid.v) :
                /\ Cardinality({ j \in FirstSeen(mid.v) : j <= i }) = k
                /\ ret.v[k] = mid.v[i]

\* two different rows of the same quarter and date, and a third row: the first
\* of the two and the third are returned
C28_Witness ==
    /\ fn = "parse_earnings" /\ ret # Null
    /\ Len(mid.v) = 3 /\ Len(ret.v) = 2
    /\ KeyOf(mid.v[1]) = KeyOf(mid.v[2]) /\ mid.v[1] # mid.v[2]
    /\ ret.v = <<mid.v[1], mid.v[3]>>

\* C29: a placeholder token yields an absent value; a token made of an
\* optionally negative number with an optional unit letter, decorated with a
\* currency symbol, thousands separators, asterisks and a marker word in any
\* letter case, yields the bare number, the unit in upper case or none, and the
\* flag of its marker word.
C29_ValueParsed ==
    /\ (fn = "_parse_one_value" /\ ret # Null /\ given = Null /\ arg # Null
          /\ Strip(arg.v) \in NO_DATA) => ret.v = NoValue
    /\ (fn = "_parse_one_value" /\ ret # Null /\ given # Null) =>
          ret.v = [value  |-> Some(given.v.sign \o Remove(given.v.number, <<",">>)),
                   unit   |-> IF given.v.unit = <<>> THEN Null ELSE Some(Upper(given.v.unit)),
                   is_est |-> given.v.marker.flag]

\* C30: parse_date_time returns no value for an empty or placeholder text;
\* else, on the text with its whitespace collapsed and a trailing ESTIMATE, EST
\* or ACTUAL removed, the weekday pattern gives the MM/DD/YYYY date with the
\* time (hour, minute and AM/PM; the hour padded where the C library pads it),
\* the month-day-year pattern gives the date with no time, and a text that
\* matches neither is returned in that cleaned form as the date with no time.
C30_DateTime ==
    (fn = "parse_date_time" /\ ret # Null) =>
       LET r == CleanText(arg)
           cleaned == DropSuffix(DropSuffix(DropSuffix(r.v, Upper(W_estimate)),
                                            Upper(W_est)), Upper(W_actual))
           full == StrptimeDateTime(Words(cleaned))
           short == StrptimeDate(Words(cleaned))
       IN  /\ r = Null => ret.v = [date |-> Null, time |-> Null]
           /\ (r # Null /\ full # Null) =>
                /\ ret.v.date = Some(FmtDate(full.v))
                /\ ret.v.time = Some(Digits(full.v.I, IF given.padded THEN 2 ELSE 1)
                                       \o <<":">> \o Digits(full.v.M, 2) \o <<" ">> \o full.v.p)
           /\ (r # Null /\ full = Null /\ short # Null) =>
                ret.v = [date |-> Some(FmtDate(short.v)), time |-> Null]
           /\ (r # Null /\ full = Null /\ short = Null) =>
                ret.v = [date |-> Some(cleaned), time |-> Null]
           /\ arg = Some(<<"W","e","d",","," ","J","u","l"," ","3","1",","," ","2","0","2","5",","," ","4",":","0","0"," ","P","M">>) =>
                /\ ret.v.date = Some(<<"0","7","/","3","1","/","2","0","2","5">>)
                /\ ret.v.time = Some(IF given.padded THEN <<"0","4",":","0","0"," ","P","M">>
                                     ELSE <<"4",":","0","0"," ","P","M">>)
           /\ arg = Some(<<"J","u","l"," ","3","1",","," ","2","0","2","5">>) =>
                ret.v = [date |-> Some(<<"0","7","/","3","1","/","2","0","2","5">>), time |-> Null]

\* the weekday pattern on a text with a doubled space, lower-case names and a
\* trailing marker aside: date and time are returned
C30_Witness ==
    /\ fn = "parse_date_time" /\ ret # Null /\ given.padded = FALSE
    /\ arg = Some(<<"T","h","u",","," ","F","e","b"," ","2","9",","," ","2","0","2","4",","," ","1","2",":","3","0"," ","A","M"," ","e","s","t">>)
    /\ ret.v = [date |-> Some(<<"0","2","/","2","9","/","2","0","2","4">>),
                time |-> Some(<<"1","2",":","3","0"," ","A","M">>)]

\* C30 as stated: a text that matches neither pattern is returned verbatim as
\* the date with no time
C30_Verbatim ==
    (fn = "parse_date_time" /\ ret # Null /\ arg # Null
       /\ StrptimeDateTime(Words(arg.v)) = Null /\ StrptimeDate(Words(arg.v)) = Null) =>
       ret.v = [date |-> arg, time |-> Null]

(***************************************************************************)
(* paths.delete_old_files (specification SpecPurge)                        *)
(*                                                                         *)
(* One call on a flat directory, other processes removing and writing      *)
(* files meanwhile.  Times are in seconds.                                 *)
(***************************************************************************)
SecondsPerHour == 3600
DefaultMaxAgeHours == 3
MaxAgeHours == 1
\* steps of other processes during one purge
MaxEnv == 1

\* time.time() during the purge
ClockNow == (DefaultMaxAgeHours + MaxAgeHours + 1) * SecondsPerHour

FileNames ==
    { <<"a",".","h","t","m","l">>, <<"b",".","h","t","m","l">>,
      <<"c",".","c","s","v">>, <<"d",".","t","x","t">> }

\* the patterns of the default and of the two calls of cleanup_artifacts
PatternLists ==
    { << <<"*",".","h","t","m","l">>, <<"*",".","j","s","o","n">>, <<"*",".","c","s","v">> >>,
      << <<"*",".","h","t","m","l">> >>,
      << <<"*",".","j","s","o","n">>, <<"*",".","c","s","v">> >> }

\* fnmatch of a name against a pattern "*<suffix>"
Matches(name, pattern) ==
    /\ pattern # <<>> /\ Head(pattern) = "*"
    /\ Len(name) >= Len(pattern) - 1
    /\ SubSeq(name, Len(name) - Len(pattern) + 2, Len(name)) = Tail(pattern)

\* line 35 with the boundary age taken for old
AgedAtOrAbove(a, threshold) == a >= threshold

\* line 35: age > threshold
Aged(a, threshold) == a > threshold

\* line 26
Threshold == max_age_hours * SecondsPerHour

purgeFrame == <<scrollVars, clickVars, stepVars, fetchVars, appVars, parseVars,
                refreshVars, raceVars>>

\* lines 22-27
PurgeStart ==
    /\ upc = "start"
    /\ IF ~dirExists
       THEN /\ upc' = "done" /\ purgeRet' = Some(0)
            /\ UNCHANGED <<pnow, count>>
       ELSE /\ upc' = "pattern" /\ pnow' = ClockNow /\ count' = 0
            /\ UNCHANGED purgeRet
    /\ UNCHANGED <<dirExists, files, filesAtStart, patterns, max_age_hours, pidx, todo,
                   file_path, age, deletedLog, passedLog, envLog>>
    /\ UNCHANGED purgeFrame

\* line 30-31: the next pattern; glob reads the directory when its first path is
\* asked for
PurgeGlob ==
    /\ upc = "pattern" /\ pidx < Len(patterns)
    /\ pidx' = pidx + 1
    /\ todo' = { f \in FileNames : files[f] # Null /\ Matches(f, patterns[pidx + 1]) }
    /\ upc' = "loop"
    /\ UNCHANGED <<dirExists, files, filesAtStart, patterns, max_age_hours, pnow,
                   file_path, age, count, purgeRet, deletedLog, passedLog, envLog>>
    /\ UNCHANGED purgeFrame

\* line 31, the glob exhausted
PurgeEndPattern ==
    /\ upc = "loop" /\ todo = {}
    /\ upc' = "pattern"
    /\ UNCHANGED <<dirExists, files, filesAtStart, patterns, max_age_hours, pnow, pidx, todo,
                   file_path, age, count, purgeRet, deletedLog, passedLog, envLog>>
    /\ UNCHANGED purgeFrame

\* lines 31-35 and 39-41: the next path, its stat and the test of its age
PurgeStat ==
    /\ upc = "loop"
    /\ \E f \in todo :
         /\ todo' = todo \ {f}
         /\ IF files[f] = Null
            THEN /\ passedLog' = Append(passedLog, <<f, "gone">>)
                 /\ UNCHANGED <<upc, file_path, age>>
            ELSE /\ age' = pnow - files[f].v
                 /\ IF Aged(pnow - files[f].v, Threshold)
                    THEN /\ upc' = "unlink" /\ file_path' = Some(f)
                         /\ UNCHANGED passedLog
                    ELSE /\ passedLog' = Append(passedLog, <<f, "young">>)
                         /\ UNCHANGED <<upc, file_path>>
    /\ UNCHANGED <<dirExists, files, filesAtStart, patterns, max_age_hours, pnow, pidx,
                   count, purgeRet, deletedLog, envLog>>
    /\ UNCHANGED purgeFrame

\* lines 36-43: unlink removes the file, or raises FileNotFoundError (the file
\* is gone), or raises another exception, which is logged
PurgeUnlink ==
    /\ upc = "unlink"
    /\ upc' = "loop" /\ file_path' = Null
    /\ IF files[file_path.v] = Null
       THEN /\ passedLog' = Append(passedLog, <<file_path.v, "gone">>)
            /\ UNCHANGED <<files, count, deletedLog>>
       ELSE \/ /\ files' = [files EXCEPT ![file_path.v] = Null]
               /\ count' = count + 1
               /\ deletedLog' = Append(deletedLog, [name |-> file_path.v, seen |-> pnow - age,
                                                    mtime |-> files[file_path.v].v])
               /\ UNCHANGED passedLog
            \/ /\ passedLog' = Append(passedLog, <<file_path.v, "failed">>)
               /\ UNCHANGED <<files, count, deletedLog>>
    /\ UNCHANGED <<dirExists, filesAtStart, patterns, max_age_hours, pnow, pidx, todo,
                   age, purgeRet, envLog>>
    /\ UNCHANGED purgeFrame

\* line 44
PurgeReturn ==
    /\ upc = "pattern" /\ pidx = Len(patterns)
    /\ upc' = "done" /\ purgeRet' = Some(count)
    /\ UNCHANGED <<dirExists, files, filesAtStart, patterns, max_age_hours, pnow, pidx, todo,
                   file_path, age, count, deletedLog, passedLog, envLog>>
    /\ UNCHANGED purgeFrame

\* another process removes a file of the directory
EnvRemove ==
    /\ upc \notin {"idle", "start", "done"} /\ Len(envLog) < MaxEnv
    /\ \E f \in FileNames :
         /\ files[f] # Null
         /\ files' = [files EXCEPT ![f] = Null]
         /\ envLog' = Append(envLog, <<"remove", f>>)
    /\ UNCHANGED <<upc, dirExists, filesAtStart, patterns, max_age_hours, pnow, pidx, todo,
                   file_path, age, count, purgeRet, deletedLog, passedLog>>
    /\ UNCHANGED purgeFrame

\* another process writes a file of the directory (scraper._write, the exports)
EnvWrite ==
    /\ upc \notin {"idle", "start", "done"} /\ Len(envLog) < MaxEnv
    /\ \E f \in FileNames :
         /\ files' = [files EXCEPT ![f] = Some(ClockNow)]
         /\ envLog' = Append(envLog, <<"write", f>>)
    /\ UNCHANGED <<upc, dirExists, filesAtStart, patterns, max_age_hours, pnow, pidx, todo,
                   file_path, age, count, purgeRet, deletedLog, passedLog>>
    /\ UNCHANGED purgeFrame

PurgeStep ==
    \/ PurgeStart
    \/ PurgeGlob
    \/ PurgeEndPattern
    \/ PurgeStat
    \/ PurgeUnlink
    \/ PurgeReturn
    \/ EnvRemove
    \/ EnvWrite

\* the modification times a file has at the call: older than the threshold, at
\* the threshold, just written
MTimes(hours) ==
    { ClockNow - hours * SecondsPerHour - 1, ClockNow - hours * SecondsPerHour, ClockNow }

InitPurge ==
    /\ ScrollIdle /\ ClickIdle /\ StepIdle /\ FetchIdle /\ StoreIdle /\ CliIdle /\ RunIdle
    /\ ParseIdle /\ RefreshIdle /\ RaceIdle
    /\ upc = "start"
    /\ patterns \in PatternLists
    /\ max_age_hours \in (0..MaxAgeHours) \cup {DefaultMaxAgeHours}
    /\ dirExists \in BOOLEAN
    /\ files \in [FileNames -> {Null} \cup { Some(t) : t \in MTimes(max_age_hours) }]
    /\ ~dirExists => \A f \in FileNames : files[f] = Null
    /\ filesAtStart = files
    /\ pnow = 0 /\ pidx = 0 /\ todo = {} /\ file_path = Null /\ age = 0 /\ count = 0
    /\ purgeRet = Null /\ deletedLog = <<>> /\ passedLog = <<>> /\ envLog = <<>>

SpecPurge == InitPurge /\ [][PurgeStep]_vars

(***************************************************************************)
(* Properties of the purge                                                 *)
(***************************************************************************)
Matched(f) == \E i \in 1..Len(patterns) : Matches(f, patterns[i])

Deleted(f) == \E i \in 1..Len(deletedLog) : deletedLog[i].name = f

Touched(f) == \E i \in 1..Len(envLog) : envLog[i][2] = f

Removed(f) == \E i \in 1..Len(envLog) : envLog[i] = <<"remove", f>>

Passed(f, why) == \E i \in 1..Len(passedLog) : passedLog[i] = <<f, why>>

\* the file was there at the call, older than the threshold
OldAtStart(f) ==
    filesAtStart[f] # Null /\ ClockNow - filesAtStart[f].v > max_age_hours * SecondsPerHour

\* C22 as stated: the purge deletes exactly the matching entries whose age
\* exceeds the threshold, never an entry whose age is at or below it; an entry
\* that disappeared is skipped; the count is the number of entries deleted.
C22_PurgeExact ==
    (upc = "done") =>
       /\ purgeRet # Null /\ purgeRet.v = Len(deletedLog)
       /\ \A i \in 1..Len(deletedLog) :
             /\ Matched(deletedLog[i].name)
             /\ ClockNow - deletedLog[i].mtime > max_age_hours * SecondsPerHour
       /\ \A f \in FileNames :
             (Matched(f) /\ OldAtStart(f) /\ ~Touched(f)) => Deleted(f)

\* C22: the purge deletes only entries that match a pattern and whose age, as
\* the purge read it, exceeds the threshold; an entry no other process touched
\* is never deleted at or below the threshold, and is deleted above it unless
\* its deletion failed (logged, not counted); an entry that disappeared
\* between the scan and its deletion is skipped; the call returns, and returns
\* the number of entries it deleted.
C22_Purge ==
    /\ \A i \in 1..Len(deletedLog) :
          /\ Matched(deletedLog[i].name)
          /\ ClockNow - deletedLog[i].seen > max_age_hours * SecondsPerHour
          /\ ~Touched(deletedLog[i].name) => OldAtStart(deletedLog[i].name)
          /\ \A j \in 1..Len(deletedLog) : deletedLog[j].name = deletedLog[i].name => j = i
    /\ (upc = "done") =>
          /\ purgeRet # Null /\ purgeRet.v = Len(deletedLog)
          /\ \A f \in FileNames :
                /\ (Matched(f) /\ OldAtStart(f) /\ ~Touched(f)) =>
                      Deleted(f) \/ Passed(f, "failed")
                /\ Passed(f, "gone") => Removed(f)
                /\ (~Deleted(f) /\ ~Touched(f)) => files[f] = filesAtStart[f]

\* one entry deleted, one that disappeared after the scan skipped, one at the
\* threshold kept
C22_Witness ==
    /\ upc = "done" /\ purgeRet = Some(1)
    /\ Deleted(<<"a",".","h","t","m","l">>)
    /\ Removed(<<"b",".","h","t","m","l">>) /\ Passed(<<"b",".","h","t","m","l">>, "gone")
    /\ filesAtStart[<<"c",".","c","s","v">>] = Some(ClockNow - max_age_hours * SecondsPerHour)
    /\ files[<<"c",".","c","s","v">>] = filesAtStart[<<"c",".","c","s","v">>]
    /\ Passed(<<"c",".","c","s","v">>, "young")

(***************************************************************************)
(* run_for_ticker up to its fetch, lines 195-212 (specification            *)
(* SpecRefresh): the clean-up, the forced deletion, then fetch_variants    *)
(***************************************************************************)
\* build_earningshub_url
BuildUrl(ticker) == <<"/","q","/">> \o Upper(Strip(ticker))

\* line 203
NeedsOf(v) ==
    IF v = VARIANT_OVERVIEW THEN <<VARIANT_OVERVIEW, VARIANT_ANALYST>>
    ELSE <<VARIANT_OVERVIEW, VARIANT_ANALYST, VARIANT_EARNINGS>>

refreshFrame == <<scrollVars, clickVars, stepVars, appVars, parseVars, purgeVars, raceVars>>

\* lines 195-203: cleanup_artifacts removes the cached files that are old
\* enough (any of the subject's may be)
RefreshCleanup ==
    /\ fpc = "start"
    /\ \E gone \in SUBSET { p \in CachePaths :
                              cache[p] # Absent /\ p[1] = Upper(Strip(f_ticker)) } :
          cache' = [p \in CachePaths |-> IF p \in gone THEN Absent ELSE cache[p]]
    /\ needs' = IF force_refresh THEN NeedsOf(f_variant) ELSE <<>>
    /\ fpc' = IF force_refresh THEN "delete" ELSE "fetch"
    /\ UNCHANGED <<f_ticker, f_variant, force_refresh, unlinkLog>>
    /\ UNCHANGED <<pc, url, variants, name_prefix, cacheAtStart, driver, sessions, quitLog,
                   curUrl, html, captureLog, results, pending, outcome, navLog, writeLog,
                   stepOutcomes>>
    /\ UNCHANGED refreshFrame

\* _delete_cache_if_exists, one variant: p.unlink() removes the file, or raises
\* and the exception is logged
RefreshDelete ==
    /\ fpc = "delete"
    /\ LET p == FriendlyPath(Upper(Strip(f_ticker)), Head(needs))
       IN  IF cache[p] = Absent
           THEN UNCHANGED <<cache, unlinkLog>>
           ELSE \/ /\ cache' = [cache EXCEPT ![p] = Absent]
                   /\ unlinkLog' = Append(unlinkLog, <<p, "deleted">>)
                \/ /\ unlinkLog' = Append(unlinkLog, <<p, "failed">>)
                   /\ UNCHANGED cache
    /\ needs' = Tail(needs)
    /\ fpc' = IF Tail(needs) = <<>> THEN "fetch" ELSE "delete"
    /\ UNCHANGED <<f_ticker, f_variant, force_refresh>>
    /\ UNCHANGED <<pc, url, variants, name_prefix, cacheAtStart, driver, sessions, quitLog,
                   curUrl, html, captureLog, results, pending, outcome, navLog, writeLog,
                   stepOutcomes>>
    /\ UNCHANGED refreshFrame

\* lines 206-212: scraper.fetch_variants(url=url, variants=[variant], name_prefix=t, ...)
RefreshFetch ==
    /\ fpc = "fetch"
    /\ url' = BuildUrl(f_ticker)
    /\ variants' = <<f_variant>>
    /\ name_prefix' = Upper(Strip(f_ticker))
    /\ cacheAtStart' = cache
    /\ pc' = "start" /\ outcome' = "running"
    /\ fpc' = "fetching"
    /\ UNCHANGED <<f_ticker, f_variant, force_refresh, needs, unlinkLog>>
    /\ UNCHANGED <<cache, driver, sessions, quitLog, curUrl, html, captureLog, results,
                   pending, navLog, writeLog, stepOutcomes>>
    /\ UNCHANGED refreshFrame

\* fetch_variants is back: with the results, or with its exception
RefreshBack ==
    /\ fpc = "fetching" /\ pc = "done"
    /\ fpc' = "done"
    /\ UNCHANGED <<f_ticker, f_variant, force_refresh, needs, unlinkLog>>
    /\ UNCHANGED fetchVars
    /\ UNCHANGED refreshFrame

RefreshStep ==
    \/ RefreshCleanup
    \/ RefreshDelete
    \/ RefreshFetch
    \/ RefreshBack

NextRefresh == RefreshStep \/ Next

InitRefresh ==
    /\ ScrollIdle /\ ClickIdle /\ StepIdle /\ StoreIdle /\ CliIdle /\ RunIdle
    /\ ParseIdle /\ PurgeIdle /\ RaceIdle
    /\ fpc = "start"
    /\ f_ticker = <<" ","a"," ">>
    /\ f_variant \in ALLOWED
    /\ force_refresh \in BOOLEAN
    /\ needs = <<>> /\ unlinkLog = <<>>
    /\ cache \in InitialCaches
    /\ cacheAtStart = cache
    /\ pc = "idle" /\ url = <<>> /\ variants = <<>> /\ name_prefix = <<>>
    /\ driver = NoDriver /\ sessions = <<>> /\ quitLog = <<>> /\ curUrl = <<>>
    /\ html = Absent /\ captureLog = <<>> /\ results = <<>> /\ pending = None /\ outcome = "idle"
    /\ navLog = <<>> /\ writeLog = <<>> /\ stepOutcomes = <<>>

SpecRefresh == InitRefresh /\ [][NextRefresh]_vars

(***************************************************************************)
(* Properties of the forced refresh                                        *)
(***************************************************************************)
\* the files of the variant group of the run
GroupPaths == { FriendlyPath(Upper(Strip(f_ticker)), v) : v \in Range(NeedsOf(f_variant)) }

\* fetch_variants returned to a forced-refresh run
ForcedReturned == force_refresh /\ fpc \in {"fetching", "done"} /\ pc = "done" /\ outcome = "returned"

\* C23: a forced-refresh run has deleted every cached document of the variant
\* group when it fetches, so the fetch does not take the cache branch, and no
\* document written before the run is behind a path the run returns.
C23_ForcedRefresh ==
    /\ (force_refresh /\ fpc = "fetch") => \A p \in GroupPaths : cache[p] = Absent
    /\ ForcedReturned =>
          /\ sessions # <<>>
          /\ \A v \in DOMAIN results : cache[results[v]] # CachedDoc

\* the same when no deletion has failed
ForcedRefreshWhenDeleted ==
    (\A i \in 1..Len(unlinkLog) : unlinkLog[i][2] # "failed") => C23_ForcedRefresh

(***************************************************************************)
(* Two invocations of fetch_variants at once, for the same subject and     *)
(* variant, on one cache directory (specification SpecRace)                *)
(*                                                                         *)
(* A process is at [at, v]: the stage and the document it is about.  The   *)
(* steps between navigation and capture do not touch the cache and are     *)
(* left out.  Files are only created here, so the cache tests of lines     *)
(* 110-124 are one step.                                                   *)
(***************************************************************************)
Procs == {1, 2}

At(stage, v) == [at |-> stage, v |-> v]

\* the document process p captures for v
RaceDoc(p, v) == [page |-> v, body |-> BodyData, by |-> p]

\* a file opened for writing and not yet written
EmptyFile == [page |-> "", body |-> <<>>, by |-> 0]

\* a file that holds parts of two overlapping writes
Torn(v) == [page |-> v, body |-> <<"t","o","r","n">>, by |-> 0]

\* _exists on the shared directory
RaceExists(v) == entries[v] # Absent

\* the stage after the document v
AfterDoc(v) ==
    CASE v = VARIANT_OVERVIEW -> At("check", VARIANT_ANALYST)
      [] v = VARIANT_ANALYST  -> At("check", VARIANT_EARNINGS)
      [] OTHER                -> At("setdefault", "-")

\* write_text under a lock: data of another process that landed since the
\* open is kept
LandedKeepFirst(held, doc, dirty) == IF dirty THEN {held} ELSE {doc}

\* _write, lines 80-83: what the file holds when write_text has written html.
\* The file was truncated at the open; data of another process that landed
\* since then and the data of this write lie over each other
Landed(held, doc, dirty) == IF dirty THEN {doc, Torn(doc.page)} ELSE {doc}

raceFrame == <<scrollVars, clickVars, stepVars, fetchVars, appVars, parseVars, purgeVars,
               refreshVars>>

\* lines 99-124
RStart(p) ==
    /\ qpc[p] = At("start", "-")
    /\ IF \A v \in Required(<<qvariant>>) : RaceExists(v)
       THEN /\ qresults' = [qresults EXCEPT ![p] = Required(<<qvariant>>)]
            /\ qpc' = [qpc EXCEPT ![p] = At("done", "-")]
       ELSE /\ qpc' = [qpc EXCEPT ![p] = At("create_driver", "-")]
            /\ UNCHANGED qresults
    /\ UNCHANGED <<qvariant, qdriver, qhtml, qsaw, qdirty, entries, qsessions, qwrites>>
    /\ UNCHANGED raceFrame

\* line 128: driver = self._create_driver()
RCreateDriver(p) ==
    /\ qpc[p] = At("create_driver", "-")
    /\ qsessions' = qsessions \cup {Cardinality(qsessions) + 1}
    /\ qdriver' = [qdriver EXCEPT ![p] = Cardinality(qsessions) + 1]
    /\ qpc' = [qpc EXCEPT ![p] = At("nav", "base")]
    /\ UNCHANGED <<qvariant, qhtml, qresults, qsaw, qdirty, entries, qwrites>>
    /\ UNCHANGED raceFrame

\* self._navigate(driver, ...): lines 129, 145, 160; it may raise
RNav(p) ==
    /\ qpc[p].at = "nav"
    /\ \/ qpc' = [qpc EXCEPT ![p] = IF qpc[p].v = "base" THEN At("check", VARIANT_OVERVIEW)
                                    ELSE At("capture", qpc[p].v)]
       \/ qpc' = [qpc EXCEPT ![p] = At("finally", "raised")]
    /\ UNCHANGED <<qvariant, qdriver, qhtml, qresults, qsaw, qdirty, entries, qsessions, qwrites>>
    /\ UNCHANGED raceFrame

\* lines 132-133, 143, 158: the test of the cache before a document is fetched
RCheck(p) ==
    /\ qpc[p].at = "check"
    /\ LET v == qpc[p].v
           asked == v # VARIANT_EARNINGS \/ WantEarnings(<<qvariant>>)
       IN  /\ qsaw' = [qsaw EXCEPT ![p][v] = IF ~asked THEN "unasked"
                                            ELSE IF RaceExists(v) THEN "present" ELSE "missing"]
           /\ qpc' = [qpc EXCEPT ![p] =
                         IF asked /\ ~RaceExists(v)
                         THEN IF v = VARIANT_OVERVIEW THEN At("capture", v) ELSE At("nav", v)
                         ELSE AfterDoc(v)]
    /\ UNCHANGED <<qvariant, qdriver, qhtml, qresults, qdirty, entries, qsessions, qwrites>>
    /\ UNCHANGED raceFrame

\* html = driver.page_source; if not _no_results(html): ...
RCapture(p) ==
    /\ qpc[p].at = "capture"
    /\ \/ /\ qhtml' = [qhtml EXCEPT ![p] = RaceDoc(p, qpc[p].v)]
          /\ qpc' = [qpc EXCEPT ![p] = At("open", qpc[p].v)]
       \/ /\ qhtml' = [qhtml EXCEPT ![p] = [page |-> qpc[p].v, body |-> BodyNotFoundMixed, by |-> p]]
          /\ qpc' = [qpc EXCEPT ![p] = AfterDoc(qpc[p].v)]
    /\ UNCHANGED <<qvariant, qdriver, qresults, qsaw, qdirty, entries, qsessions, qwrites>>
    /\ UNCHANGED raceFrame

\* _write, p.write_text: the file is opened for writing, which truncates it
ROpen(p) ==
    /\ qpc[p].at = "open"
    /\ entries' = [entries EXCEPT ![qpc[p].v] = EmptyFile]
    /\ qdirty' = [qdirty EXCEPT ![p] = FALSE]
    /\ qpc' = [qpc EXCEPT ![p] = At("write", qpc[p].v)]
    /\ UNCHANGED <<qvariant, qdriver, qhtml, qresults, qsaw, qsessions, qwrites>>
    /\ UNCHANGED raceFrame

\* _write, p.write_text: the text is written and the file closed;
\* results[variant] = path
RWrite(p) ==
    /\ qpc[p].at = "write"
    /\ LET v == qpc[p].v IN
       /\ \E c \in Landed(entries[v], qhtml[p], qdirty[p]) :
             entries' = [entries EXCEPT ![v] = c]
       /\ qwrites' = Append(qwrites, [by |-> p, variant |-> v, html |-> qhtml[p],
                                      dirty |-> qdirty[p]])
       /\ qdirty' = [q \in Procs |-> IF q # p /\ qpc[q] = At("write", v) THEN TRUE
                                     ELSE qdirty[q]]
       /\ qresults' = [qresults EXCEPT ![p] = @ \cup {v}]
       /\ qpc' = [qpc EXCEPT ![p] = AfterDoc(v)]
    /\ UNCHANGED <<qvariant, qdriver, qhtml, qsaw, qsessions>>
    /\ UNCHANGED raceFrame

\* lines 173-176
RSetDefault(p) ==
    /\ qpc[p] = At("setdefault", "-")
    /\ qresults' = [qresults EXCEPT ![p] =
                       IF qvariant = VARIANT_FULL THEN @ \cup Required(<<qvariant>>) ELSE @]
    /\ qpc' = [qpc EXCEPT ![p] = At("finally", "-")]
    /\ UNCHANGED <<qvariant, qdriver, qhtml, qsaw, qdirty, entries, qsessions, qwrites>>
    /\ UNCHANGED raceFrame

\* lines 178-186
RFinally(p) ==
    /\ qpc[p].at = "finally"
    /\ qpc' = [qpc EXCEPT ![p] = At("done", qpc[p].v)]
    /\ UNCHANGED <<qvariant, qdriver, qhtml, qresults, qsaw, qdirty, entries, qsessions, qwrites>>
    /\ UNCHANGED raceFrame

RaceStep ==
    \E p \in Procs :
       \/ RStart(p)
       \/ RCreateDriver(p)
       \/ RNav(p)
       \/ RCheck(p)
       \/ RCapture(p)
       \/ ROpen(p)
       \/ RWrite(p)
       \/ RSetDefault(p)
       \/ RFinally(p)

InitRace ==
    /\ ScrollIdle /\ ClickIdle /\ StepIdle /\ FetchIdle /\ StoreIdle /\ CliIdle /\ RunIdle
    /\ ParseIdle /\ PurgeIdle /\ RefreshIdle
    /\ qvariant \in ALLOWED
    /\ entries \in [DocVariants -> {Absent, [page |-> "?", body |-> <<"o","l","d">>, by |-> 0]}]
    /\ qpc = [p \in Procs |-> At("start", "-")]
    /\ qdriver = [p \in Procs |-> NoDriver]
    /\ qhtml = [p \in Procs |-> Absent]
    /\ qresults = [p \in Procs |-> {}]
    /\ qsaw = [p \in Procs |-> [v \in DocVariants |-> "unasked"]]
    /\ qdirty = [p \in Procs |-> FALSE]
    /\ qsessions = {} /\ qwrites = <<>>

SpecRace == InitRace /\ [][RaceStep]_vars

(***************************************************************************)
(* Properties of the two concurrent invocations                            *)
(***************************************************************************)
\* the completed writes of the document v, in their order
WritesOf(v) == SelectSeq(qwrites, LAMBDA w : w.variant = v)

\* no process has the file of v open
Closed(v) == \A p \in Procs : qpc[p] # At("write", v)

\* C21: nothing keeps two invocations for the same subject and variant from
\* fetching and writing the same cache entry.  Both may find the document
\* missing, each then opens a session and writes the entry, and the file holds
\* the text of the later write (when the later write began before the earlier
\* one ended, that text or a mix of the two).
C21_LastWriteSurvives ==
    /\ \A v \in DocVariants :
          (WritesOf(v) # <<>> /\ Closed(v)) =>
             LET last == WritesOf(v)[Len(WritesOf(v))]
             IN  IF last.dirty THEN entries[v] \in {last.html, Torn(v)}
                 ELSE entries[v] = last.html
    /\ \A p \in Procs :
          /\ (\E v \in DocVariants : qsaw[p][v] = "missing") => qdriver[p] \in qsessions
          /\ \A i \in 1..Len(qwrites) : qsaw[qwrites[i].by][qwrites[i].variant] = "missing"

\* both found the overview missing, both opened a session, both wrote the
\* overview entry one after the other; the file holds the second text
C21_Witness ==
    /\ qsaw[1][VARIANT_OVERVIEW] = "missing" /\ qsaw[2][VARIANT_OVERVIEW] = "missing"
    /\ qdriver[1] # NoDriver /\ qdriver[2] # NoDriver /\ qdriver[1] # qdriver[2]
    /\ Len(WritesOf(VARIANT_OVERVIEW)) = 2
    /\ WritesOf(VARIANT_OVERVIEW)[1].by # WritesOf(VARIANT_OVERVIEW)[2].by
    /\ ~WritesOf(VARIANT_OVERVIEW)[2].dirty
    /\ entries[VARIANT_OVERVIEW] = WritesOf(VARIANT_OVERVIEW)[2].html
    /\ entries[VARIANT_OVERVIEW] # WritesOf(VARIANT_OVERVIEW)[1].html

(***************************************************************************)
(* Properties of the mapping fetch_variants returns and of its writes      *)
(* (specification Spec)                                                    *)
(***************************************************************************)
FetchReturned == pc = "done" /\ outcome = "returned"

\* C32: every location in the mapping fetch_variants returns refers to a
\* document that exists in the cache when the call returns; a document that
\* was missing and not captured has no entry, for `overview` and `full` alike.
C32_ResultsExist ==
    FetchReturned => \A v \in DOMAIN results : cache[results[v]] # Absent

\* C33: when fetch_variants returns, its result has an entry for every
\* required document of the requested variant that exists in the cache, a
\* document cached before the call included.
C33_ResultsComplete ==
    FetchReturned =>
       \A v \in Required(Order) :
          cache[FriendlyPath(name_prefix, v)] # Absent =>
             (v \in DOMAIN results /\ results[v] = FriendlyPath(name_prefix, v))

\* C34: fetch_variants never overwrites or deletes a cached document: every
\* document that is in the cache when the invocation starts is there with the
\* same content at every later point, and every write goes to an entry of the
\* requested subject that was missing at the start.
C34_CacheReadOnly ==
    /\ \A p \in CachePaths : cacheAtStart[p] # Absent => cache[p] = cacheAtStart[p]
    /\ \A i \in 1..Len(writeLog) :
          /\ writeLog[i][1][1] = Upper(Strip(name_prefix))
          /\ cacheAtStart[writeLog[i][1]] = Absent

\* a `full` request with the overview cached: the analyst and the earnings
\* documents are written, the overview is as it was
C34_Witness ==
    /\ FetchReturned /\ VARIANT_FULL \in Range(Order)
    /\ cacheAtStart[FriendlyPath(name_prefix, VARIANT_OVERVIEW)] = CachedDoc
    /\ cache[FriendlyPath(name_prefix, VARIANT_OVERVIEW)] = CachedDoc
    /\ cacheAtStart[FriendlyPath(name_prefix, VARIANT_ANALYST)] = Absent
    /\ Len(writeLog) = 2
    /\ cache[FriendlyPath(name_prefix, VARIANT_ANALYST)] \notin {Absent, CachedDoc}
    /\ cache[FriendlyPath(name_prefix, VARIANT_EARNINGS)] \notin {Absent, CachedDoc}

(***************************************************************************)
(* Properties of the connections, the counters and the schema of the store *)
(* (specification SpecStore)                                               *)
(***************************************************************************)
\* C38: every connection opened by upsert_earnings_row and by
\* load_earnings_rows is closed when the operation returns or raises, a
\* failed statement or a failed commit included.
C38_ConnectionsClosed ==
    (dpc = "done" /\ op \in {"upsert", "load"}) => conn # "open"

\* the statements executed so far with the affected-row count rc
ExecutedWith(rc) == { i \in DOMAIN executed : executed[i].rowcount = rc }

\* C39: at every point of load_earnings_rows, and in the statistics it
\* returns, attempted = inserted + updated + unchanged = the number of records
\* executed so far, and every executed record is counted by exactly one of the
\* three action counters, the one its affected-row count names.
C39_AttemptedIsSum ==
    /\ op \in {"load", "direct"} =>
          /\ stats.attempted = stats.inserted + stats.updated + stats.unchanged
          /\ stats.attempted = Len(executed)
          /\ stats.inserted = Cardinality(ExecutedWith(1))
          /\ stats.updated = Cardinality(ExecutedWith(2))
          /\ stats.unchanged = Cardinality(ExecutedWith(0))
    /\ (Ended("load", "returned") \/ Ended("direct", "returned")) => dbResult = stats

\* a batch of three records returned: one inserted, one updated, one unchanged
C39_Witness ==
    /\ Ended("load", "returned")
    /\ dbResult = [inserted |-> 1, updated |-> 1, unchanged |-> 1, attempted |-> 3]
    /\ Len(executed) = 3

\* C36: the store accepts every record that has a subject and a valid report
\* date, a record without a quarter label included: no record that reaches the
\* statement is one the schema rejects.
C36_EmptyQuarterAccepted ==
    /\ dpc = "upsert_execute" => ~StatementFails(earn)
    /\ (dpc = "load_row" /\ NextItem(rows, pos, default_ticker).kind = "yield") =>
          ~StatementFails(NextItem(rows, pos, default_ticker).e)

(***************************************************************************)
(* Properties of parse_latest and of the records of one history document   *)
(* (specification SpecParse)                                               *)
(***************************************************************************)
LatestKeys ==
    {"ticker", "quarter", "date", "time", "rev_est", "rev_est_unit", "rev_act",
     "rev_act_unit", "rev_prc", "rev_sta", "eps_est", "eps_act", "eps_prc", "eps_sta"}

\* C31: for every document the dict parse_latest returns has exactly the keys
\* ticker, quarter, date, time, rev_est, rev_est_unit, rev_act, rev_act_unit,
\* rev_prc, rev_sta, eps_est, eps_act, eps_prc, eps_sta, whether or not a
\* container, its date block or its metrics block is found.
C31_LatestKeys ==
    (fn = "parse_latest" /\ ret # Null) => DOMAIN ret.v = LatestKeys

\* the statements load_earnings_rows executes for the records of a parsed batch
Statements(recs) ==
    [i \in 1..Len(recs) |->
       [e |-> [ticker |-> recs[i].ticker, quarter |-> Some(recs[i].quarter),
               report_date |-> recs[i].date, rev_est |-> ToFloat(recs[i].rev_est)]]]

\* every record of the batch has a quarter label and a report date
Storable(recs) == \A i \in 1..Len(recs) : recs[i].quarter # <<>> /\ recs[i].date # <<>>

\* C35: the records parse_earnings returns have pairwise distinct keys
\* (ticker, report date), so upserting them into a table without a row of the
\* subject inserts every one of them: as many rows as records.
C35_BatchAllInserted ==
    (fn = "parse_earnings" /\ ret # Null /\ Storable(ret.v)) =>
       /\ \A i, j \in 1..Len(ret.v) :
             <<ret.v[i].ticker, ret.v[i].date>> = <<ret.v[j].ticker, ret.v[j].date>> => i = j
       /\ Cardinality(Replay({}, Statements(ret.v), 1, 0)) = Len(ret.v)

\* a cell text that parses to a value and carries no estimate or actual marker
Unmarked(x) ==
    Truthy(x) /\ ParseOneValue(x).value # Null /\ ParseOneValue(x).is_est = Null

\* C37: a lone unmarked value of a history row stays on its side: from the
\* rev_est or eps_est column, the actual column being empty, it is the
\* estimate of the record and the actual is empty; from an actual column, the
\* estimate column being empty, it is the actual and the estimate is empty.
C37_LonePositionKept ==
    (fn = "parse_earnings" /\ ret # Null /\ arg # Null /\ Len(arg.v) = 1
        /\ arg.v[1] # NoCells /\ Len(ret.v) = 1) =>
       LET row == RowToMap(arg.v[1])
           r == ret.v[1]
       IN  /\ (Unmarked(row.rev_est) /\ ~Truthy(row.rev_act)) =>
                 (r.rev_est = ParseOneValue(row.rev_est).value.v /\ r.rev_act = <<>>)
           /\ (Unmarked(row.eps_est) /\ ~Truthy(row.eps_act)) =>
                 (r.eps_est = ParseOneValue(row.eps_est).value.v /\ r.eps_act = <<>>)
           /\ (Unmarked(row.rev_act) /\ ~Truthy(row.rev_est)) =>
                 (r.rev_act = ParseOneValue(row.rev_act).value.v /\ r.rev_est = <<>>)
           /\ (Unmarked(row.eps_act) /\ ~Truthy(row.eps_est)) =>
                 (r.eps_act = ParseOneValue(row.eps_act).value.v /\ r.eps_est = <<>>)

====
